---- MODULE Spec2Model ----
(***************************************************************************)
(* Model of the discipline classifier agent: the execute pipeline of       *)
(* DisciplineClassifierCCA (paper parsing, feature extraction, discipline  *)
(* classification, persistence in the analysis store), the pure parsing /  *)
(* validation / serialization functions of DisciplineClassifierService and *)
(* the expert role derivation of discipline_models.                        *)
(*                                                                         *)
(* Specifications: Spec (a run of execute), SpecClassify (a direct call of *)
(* classify_paper), SpecParse (a direct call of parse_paper), SpecValue    *)
(* (validation passes and serializations of any classification value),     *)
(* SpecRoles (derivation calls and their callers), SpecFunctions (direct   *)
(* calls of the taxonomy lookups and of the parser's text heuristics).     *)
(*                                                                         *)
(* Conventions.                                                            *)
(*  - Scores and confidences are counted in tenths: 0.5 is 5, 1.0 is 10,   *)
(*    1.7 is 17, -0.2 is -2.                                               *)
(*  - An optional value (a key a JSON object may lack, a keyword argument  *)
(*    that may be None) is a sequence of length 0 or 1: <<>> is "absent",  *)
(*    <<v>> is "present with value v".                                     *)
(*  - The collaborators (document store, oracles, analysis store) answer   *)
(*    nondeterministically; every invocation is appended to calls.         *)
(***************************************************************************)
EXTENDS Integers, Sequences, FiniteSets, TLC

VARIABLES
    caller,                  \* "execute": a run of DisciplineClassifierCCA.execute;
                             \* "classify_paper": a direct call of the service method
    pc,                      \* position of the run
    file_id,                 \* kwargs.get("file_id")
    structured_content_overview_id,  \* kwargs.get("structured_content_overview_id")
    store_to_mcp,            \* DisciplineClassifierService.store_to_mcp
    parse_locals,            \* parse_paper's locals once the sections are read:
                             \* sections and structured_content_overview_id
    paper_content,           \* the PaperContent of phase 1
    extraction_oracle,       \* what the extraction oracle did
    classification_oracle,   \* what the classification oracle did (and wrote)
    classification,          \* the DisciplineClassification of phase 2
    cp_state,                \* classify_paper: "idle", "returned" or "raised"
    calls,                   \* the collaborator invocations so far, in order
    status,                  \* execute's returned status: "none", "success", "error"
    error,                   \* the exception that ended the run ("" when none)
    result,                  \* execute's returned result payload
    create_result,           \* _store_classification_to_mcp: the answer of the
                             \* analysis store's create step
    validation_passes,       \* a classification and the results of the
                             \* validation passes run on it, in order
    payload,                 \* a serialized classification
    reconstructed,           \* what was rebuilt from the payload
    DEFAULT_EXPERT_CONFIGS,  \* the module-level default roster: the five
                             \* ExpertRole objects created at import
    experts,                 \* the list get_expert_roles_for_disciplines
                             \* returned last, as its caller holds it
    discipline_names,        \* the arguments of that call
    num_experts,
    pure_call                \* the last direct call of a pure function: its
                             \* name, arguments and result

\* the state of the operations on a classification value
value_vars == <<validation_passes, payload, reconstructed>>
\* the state of the expert role derivation
role_vars == <<DEFAULT_EXPERT_CONFIGS, experts, discipline_names, num_experts>>

\* the state of a run of execute or classify_paper, its position left out
pipeline_vars ==
    <<caller, file_id, structured_content_overview_id, store_to_mcp,
      parse_locals, paper_content, extraction_oracle, classification_oracle,
      classification, cp_state, calls, status, error, result,
      create_result>>

vars == <<caller, pc, file_id, structured_content_overview_id, store_to_mcp,
          parse_locals, paper_content, extraction_oracle, classification_oracle,
          classification, cp_state, calls, status, error, result,
          create_result, validation_passes, payload, reconstructed,
          DEFAULT_EXPERT_CONFIGS, experts, discipline_names, num_experts,
          pure_call>>

----------------------------------------------------------------------------
(* Bounds of the model *)

\* longest "disciplines" list the classification oracle writes
MaxEntries == 4
\* most sections the document store lists for a structured content when
\* parse_paper is called directly
MaxSections == 2
\* most sections the document store lists inside a whole run of execute
ExecMaxSections == 1

----------------------------------------------------------------------------
(* Optional values and small helpers *)

Absent == <<>>
Some(v) == <<v>>
\* dict.get(key, default)
GetOr(opt, default) == IF opt = <<>> THEN default ELSE opt[1]
\* a truthiness test that only rejects None
TruthyNotNone(opt) == opt # <<>>

\* Python truthiness of an optional string: None and "" are falsy
Truthy(opt) == opt # <<>> /\ opt[1] # ""

\* no pure function has been called directly
NotEvaluated == [op |-> "none"]
FunctionsIdle == pure_call = NotEvaluated

Min(a, b) == IF a <= b THEN a ELSE b
Max(a, b) == IF a >= b THEN a ELSE b

----------------------------------------------------------------------------
(* Strings *)

UpperToLower ==
    ("A" :> "a") @@ ("B" :> "b") @@ ("C" :> "c") @@ ("D" :> "d") @@
    ("E" :> "e") @@ ("F" :> "f") @@ ("G" :> "g") @@ ("H" :> "h") @@
    ("I" :> "i") @@ ("J" :> "j") @@ ("K" :> "k") @@ ("L" :> "l") @@
    ("M" :> "m") @@ ("N" :> "n") @@ ("O" :> "o") @@ ("P" :> "p") @@
    ("Q" :> "q") @@ ("R" :> "r") @@ ("S" :> "s") @@ ("T" :> "t") @@
    ("U" :> "u") @@ ("V" :> "v") @@ ("W" :> "w") @@ ("X" :> "x") @@
    ("Y" :> "y") @@ ("Z" :> "z")

\* str.lower()
RECURSIVE lower(_)
lower(s) ==
    IF s = "" THEN ""
    ELSE (IF Head(s) \in DOMAIN UpperToLower THEN UpperToLower[Head(s)]
          ELSE Head(s)) \o lower(Tail(s))

\* keyword in s
contains(keyword, s) ==
    \E i \in 1..(Len(s) - Len(keyword) + 1) :
        SubSeq(s, i, i + Len(keyword) - 1) = keyword

\* s.startswith(prefix)
startswith(s, prefix) ==
    Len(prefix) <= Len(s) /\ SubSeq(s, 1, Len(prefix)) = prefix

\* str.lstrip(), str.rstrip() and str.strip() for blanks
RECURSIVE lstrip(_)
lstrip(s) ==
    IF s # "" /\ Head(s) = " " THEN lstrip(Tail(s)) ELSE s

RECURSIVE rstrip(_)
rstrip(s) ==
    IF s # "" /\ SubSeq(s, Len(s), Len(s)) = " "
    THEN rstrip(SubSeq(s, 1, Len(s) - 1))
    ELSE s

strip(s) == rstrip(lstrip(s))

----------------------------------------------------------------------------
(* Taxonomy table *)

DISCIPLINES ==
    << [id |-> 1,  name |-> "Computer Science"],
       [id |-> 2,  name |-> "Medicine"],
       [id |-> 3,  name |-> "Chemistry"],
       [id |-> 4,  name |-> "Biology"],
       [id |-> 5,  name |-> "Materials Science"],
       [id |-> 6,  name |-> "Physics"],
       [id |-> 7,  name |-> "Geology"],
       [id |-> 8,  name |-> "Psychology"],
       [id |-> 9,  name |-> "Art"],
       [id |-> 10, name |-> "History"],
       [id |-> 11, name |-> "Geography"],
       [id |-> 12, name |-> "Sociology"],
       [id |-> 13, name |-> "Business"],
       [id |-> 14, name |-> "Political Science"],
       [id |-> 15, name |-> "Economics"],
       [id |-> 16, name |-> "Philosophy"],
       [id |-> 17, name |-> "Mathematics"],
       [id |-> 18, name |-> "Engineering"],
       [id |-> 19, name |-> "Environmental Science"],
       [id |-> 20, name |-> "Agricultural and Food Sciences"],
       [id |-> 21, name |-> "Education"],
       [id |-> 22, name |-> "Law"],
       [id |-> 23, name |-> "Linguistics"] >>

\* a plausible slip: an id that is not a key resolves to the first definition
get_discipline_by_id_lenient(discipline_id) ==
    IF discipline_id \in DOMAIN DISCIPLINES
    THEN Some(DISCIPLINES[discipline_id])
    ELSE Some(DISCIPLINES[1])

\* a lookup that counts the table from 0: it returns the next definition
get_discipline_by_id_shifted(discipline_id) ==
    IF discipline_id \in DOMAIN DISCIPLINES
    THEN Some(DISCIPLINES[(discipline_id % Len(DISCIPLINES)) + 1])
    ELSE Absent

\* DISCIPLINES.get(discipline_id): the definition, or None
get_discipline_by_id(discipline_id) ==
    IF discipline_id \in DOMAIN DISCIPLINES
    THEN Some(DISCIPLINES[discipline_id])
    ELSE Absent

----------------------------------------------------------------------------
(* Discipline classification: the pure part *)

\* 1.0 and 0.0 in tenths
ScoreOne == 10
ScoreZero == 0
\* defaults of the parsing step, in tenths
DefaultEntryScore == 5
DefaultConfidence == 7
FallbackConfidence == 3
\* disc_data.get("id", 0)
DefaultEntryId == 0
\* the id of the default discipline
DefaultDisciplineId == 1
\* [:3]
TopN == 3

DisciplineResult(discipline_id, name, relevance_score, evidence) ==
    [discipline_id |-> discipline_id, name |-> name,
     relevance_score |-> relevance_score, evidence |-> evidence]

DisciplineClassification(disciplines, confidence_score, reasoning, cid) ==
    [disciplines |-> disciplines, confidence_score |-> confidence_score,
     classification_reasoning |-> reasoning,
     discipline_classification_id |-> cid]

\* no classification yet
NoClassification == [none |-> TRUE]

\* a clamp that forgot the upper limit
ClampNoCeiling(x) == Max(ScoreZero, x)

\* min(1.0, max(0.0, x))
Clamp(x) == Min(ScoreOne, Max(ScoreZero, x))

\* a fallback that reports the parsing default's confidence
FallbackWithDefaultConfidence ==
    DisciplineClassification(
        << DisciplineResult(DefaultDisciplineId, "Computer Science",
                            DefaultEntryScore,
                            "Fallback due to classification failure") >>,
        DefaultConfidence,
        "Fallback classification due to processing error",
        "")

_fallback_classification ==
    DisciplineClassification(
        << DisciplineResult(DefaultDisciplineId, "Computer Science",
                            DefaultEntryScore,
                            "Fallback due to classification failure") >>,
        FallbackConfidence,
        "Fallback classification due to processing error",
        "")

\* the loop over data.get("disciplines", []): entries whose id resolves, with
\* the canonical name and the clamped score
RECURSIVE ParseEntries(_)
ParseEntries(entries) ==
    IF entries = <<>> THEN <<>>
    ELSE LET disc_data == Head(entries)
             disc_id   == GetOr(disc_data.id, DefaultEntryId)
             score     == GetOr(disc_data.score, ScoreZero)
             evidence  == GetOr(disc_data.evidence, "")
             disc_def  == get_discipline_by_id(disc_id)
             rest      == ParseEntries(Tail(entries))
         IN  IF disc_def # Absent
             THEN << DisciplineResult(disc_id, disc_def[1].name,
                                      Clamp(score), evidence) >> \o rest
             ELSE rest

\* an insertion that puts the new element before its equals (not stable)
InsertBeforeEquals(sorted, d) ==
    LET ahead == { i \in 1..Len(sorted) :
                     sorted[i].relevance_score > d.relevance_score }
        k == Cardinality(ahead)
    IN  SubSeq(sorted, 1, k) \o <<d>> \o SubSeq(sorted, k + 1, Len(sorted))

\* insertion of d into a list sorted by descending score, after every element
\* whose score is at least d's
InsertByScoreDesc(sorted, d) ==
    LET ahead == { i \in 1..Len(sorted) :
                     sorted[i].relevance_score >= d.relevance_score }
        k == Cardinality(ahead)
    IN  SubSeq(sorted, 1, k) \o <<d>> \o SubSeq(sorted, k + 1, Len(sorted))

\* sorted(disciplines, key=lambda d: d.relevance_score, reverse=True):
\* a stable sort, equal scores keep their order
RECURSIVE SortedByScoreDesc(_)
SortedByScoreDesc(ds) ==
    IF ds = <<>> THEN <<>>
    ELSE InsertByScoreDesc(SortedByScoreDesc(SubSeq(ds, 1, Len(ds) - 1)),
                           ds[Len(ds)])

\* a truncation that keeps one entry too many
TakeOneTooMany(ds) == SubSeq(ds, 1, Min(TopN + 1, Len(ds)))

\* [:3]
TakeTop(ds) == SubSeq(ds, 1, Min(TopN, Len(ds)))

\* the single entry substituted when no entry survives the parsing step
DefaultEntry ==
    DisciplineResult(DefaultDisciplineId, "Computer Science",
                     DefaultEntryScore, "Default classification")

\* a substitution that reuses the fallback's confidence
ParseObjectFallbackConfidence(data) ==
    LET parsed == ParseEntries(GetOr(data.disciplines, <<>>))
        disciplines == IF parsed = <<>> THEN << DefaultEntry >> ELSE parsed
    IN  DisciplineClassification(
            TakeTop(SortedByScoreDesc(disciplines)),
            IF parsed = <<>> THEN FallbackConfidence
            ELSE Clamp(GetOr(data.confidence, DefaultConfidence)),
            GetOr(data.reasoning, ""),
            "")

\* a substitution whose default entry carries the id of a missing "id" key
ParseObjectUnresolvableDefault(data) ==
    LET parsed == ParseEntries(GetOr(data.disciplines, <<>>))
        disciplines ==
            IF parsed = <<>>
            THEN << DisciplineResult(DefaultEntryId, "Computer Science",
                                     DefaultEntryScore,
                                     "Default classification") >>
            ELSE parsed
    IN  DisciplineClassification(
            TakeTop(SortedByScoreDesc(disciplines)),
            Clamp(GetOr(data.confidence, DefaultConfidence)),
            GetOr(data.reasoning, ""),
            "")

\* _parse_classification_result once the artifact is a JSON object
ParseObject(data) ==
    LET parsed == ParseEntries(GetOr(data.disciplines, <<>>))
        disciplines == IF parsed = <<>> THEN << DefaultEntry >> ELSE parsed
    IN  DisciplineClassification(
            TakeTop(SortedByScoreDesc(disciplines)),
            Clamp(GetOr(data.confidence, DefaultConfidence)),
            GetOr(data.reasoning, ""),
            "")

\* the artifact kinds on which the parsing step returns the fallback
FallbackKinds == {"absent", "notjson"}

_parse_classification_result(oracle) ==
    IF oracle.kind \in FallbackKinds
    THEN _fallback_classification
    ELSE ParseObject(oracle.data)

\* the loop of the validation pass
RECURSIVE ValidateEntries(_)
ValidateEntries(ds) ==
    IF ds = <<>> THEN <<>>
    ELSE LET disc == Head(ds)
             disc_def == get_discipline_by_id(disc.discipline_id)
             rest == ValidateEntries(Tail(ds))
         IN  IF disc_def # Absent
             THEN << DisciplineResult(disc.discipline_id, disc_def[1].name,
                                      disc.relevance_score, disc.evidence) >>
                  \o rest
             ELSE rest

\* a validation pass that adds its default entry to whatever it kept
_validate_disciplines_appending(c) ==
    DisciplineClassification(
        ValidateEntries(c.disciplines)
            \o << DisciplineResult(DefaultDisciplineId, "Computer Science",
                                   DefaultEntryScore,
                                   "Fallback classification") >>,
        c.confidence_score,
        c.classification_reasoning,
        c.discipline_classification_id)

_validate_disciplines(c) ==
    LET validated == ValidateEntries(c.disciplines)
    IN  DisciplineClassification(
            IF validated = <<>>
            THEN << DisciplineResult(DefaultDisciplineId, "Computer Science",
                                     DefaultEntryScore,
                                     "Fallback classification") >>
            ELSE validated,
            c.confidence_score,
            c.classification_reasoning,
            c.discipline_classification_id)

----------------------------------------------------------------------------
(* What the collaborators may answer *)

SeqsUpTo(S, n) == UNION { [1..k -> S] : k \in 0..n }

\* one entry of the oracle's "disciplines" list, as the oracle wrote it
OracleEntry(id, score) ==
    [id |-> Some(id), name |-> Some("Medicine"), score |-> Some(score),
     tagged |-> TRUE]

\* an entry that carries an id and nothing else
BareEntry(id) ==
    [id |-> Some(id), name |-> Absent, score |-> Absent, tagged |-> FALSE]

\* The entries the oracle chooses from: ids 1 and 2 resolve, 99 does not; the
\* name written is canonical for id 2 only; scores lie above, inside and below
\* [0,1] or are missing.
EntryKinds ==
    { OracleEntry(1, 17), OracleEntry(2, 5), OracleEntry(2, -2),
      OracleEntry(99, 17), BareEntry(1) }

\* the k-th entry's evidence names its position, which tells equal entries apart
WithEvidence(s) ==
    [k \in 1..Len(s) |->
        [id |-> s[k].id, name |-> s[k].name, score |-> s[k].score,
         evidence |-> IF s[k].tagged THEN Some("ev" \o ToString(k))
                      ELSE Absent]]

ConfidenceValues == { Absent, Some(-3), Some(6), Some(14) }

\* a JSON object lacking every key
EmptyObject == [disciplines |-> Absent, confidence |-> Absent,
                reasoning |-> Absent]

\* the JSON objects the oracle may write, with lists of at most n entries
Artifacts(n) ==
    { [disciplines |-> d, confidence |-> c,
       reasoning |-> IF c = Absent THEN Absent ELSE Some("because")] :
        d \in { Absent } \cup { Some(WithEvidence(s)) :
                                  s \in SeqsUpTo(EntryKinds, n) },
        c \in ConfidenceValues }

\* An oracle call raises ("error"), returns without writing the output file
\* ("absent"), writes text that is not JSON ("notjson"), writes JSON that is
\* not an object ("nonobject") or writes a JSON object ("object").
OracleOutcomes(n) ==
    { [kind |-> k, data |-> EmptyObject] :
        k \in {"error", "absent", "notjson", "nonobject"} }
    \cup { [kind |-> "object", data |-> a] : a \in Artifacts(n) }

NotCalled == [kind |-> "notcalled", data |-> EmptyObject]

\* create_analysis_overview: failure, success with an analysis_id in the
\* output, success without one
CreateOutcomes ==
    { [status |-> "error", analysis_id |-> Absent],
      [status |-> "success", analysis_id |-> Some("analysis-1")],
      [status |-> "success", analysis_id |-> Absent] }

Call(op, ok) == [op |-> op, ok |-> ok]

\* an oracle call that is repeated when the output file is missing or is not
\* JSON
OracleCallsWithRetry(op, kind) ==
    IF kind \in {"absent", "notjson"}
    THEN << Call(op, TRUE), Call(op, TRUE) >>
    ELSE << Call(op, kind # "error") >>

\* await execute_claude_code(...): one invocation, whatever it does
OracleCalls(op, kind) == << Call(op, kind # "error") >>

\* the create step has not been called
NotCreated == [status |-> "notcalled", analysis_id |-> Absent]

----------------------------------------------------------------------------
(* PaperContent *)

PaperSection(section_id, section_name, section_type, content, section_order) ==
    [section_id |-> section_id, section_name |-> section_name,
     section_type |-> section_type, content |-> content,
     section_order |-> section_order]

PaperContent(title, abstract, secs, sc_id, original_file_id) ==
    [title |-> title, abstract |-> abstract, sections |-> secs,
     structured_content_overview_id |-> sc_id,
     original_file_id |-> original_file_id]

\* PaperContent and DisciplineClassification are dataclasses: their instances
\* have the declared fields and methods and nothing else
PaperContentAttributes ==
    { "title", "abstract", "keywords", "sections", "methodology_terms",
      "domain_terms", "potential_disciplines",
      "structured_content_overview_id", "original_file_id", "get_full_text" }

DisciplineClassificationAttributes ==
    { "disciplines", "confidence_score", "classification_reasoning",
      "discipline_classification_id", "get_primary_discipline",
      "get_discipline_names" }

NoPaper == [none |-> TRUE]
NotParsed == [none |-> TRUE]
NoResult == [none |-> TRUE]

----------------------------------------------------------------------------
(* Expert role derivation *)

\* longest discipline-name list a caller passes
MaxNames == 2
\* largest target role count a caller passes
MaxTarget == 6

DISCIPLINE_TO_EXPERT_MAPPING ==
    "Computer Science" :>
        << "Algorithm & Complexity Expert", "Experimental Design Expert",
           "Systems & Implementation Expert", "Related Work & Novelty Expert",
           "Clarity & Presentation Expert" >>
    @@ "Mathematics" :> << "Statistical Methodologist", "Formal Methods Expert" >>
    @@ "Physics" :> << "Theoretical Physicist", "Experimental Methodologist" >>
    @@ "Engineering" :> << "Systems Engineering Expert", "Technical Reviewer" >>
    @@ "Chemistry" :> << "Analytical Chemistry Expert", "Experimental Methodologist" >>
    @@ "Biology" :> << "Molecular Biology Expert", "Bioinformatics Specialist" >>
    @@ "Materials Science" :> << "Materials Characterization Expert", "Experimental Methodologist" >>
    @@ "Medicine" :> << "Clinical Research Expert", "Biostatistician" >>
    @@ "Environmental Science" :> << "Environmental Impact Assessor", "Ecological Methodologist" >>
    @@ "Agricultural and Food Sciences" :> << "Agricultural Research Expert", "Food Safety Specialist" >>
    @@ "Economics" :> << "Empirical Economics Scholar", "Causal Inference Expert" >>
    @@ "Business" :> << "Management Research Expert", "Quantitative Finance Specialist" >>
    @@ "Psychology" :> << "Experimental Psychology Expert", "Statistical Methodologist" >>
    @@ "Sociology" :> << "Qualitative Research Expert", "Social Statistics Specialist" >>
    @@ "Political Science" :> << "Policy Analysis Expert", "Comparative Politics Scholar" >>
    @@ "Education" :> << "Educational Research Methodologist", "Assessment Specialist" >>
    @@ "Philosophy" :> << "Philosophical Argumentation Expert", "Logic Specialist" >>
    @@ "History" :> << "Historical Research Methodologist", "Archival Expert" >>
    @@ "Art" :> << "Art Criticism Expert", "Aesthetic Theory Specialist" >>
    @@ "Linguistics" :> << "Linguistic Analysis Expert", "Corpus Linguistics Specialist" >>
    @@ "Law" :> << "Legal Research Expert", "Case Analysis Specialist" >>
    @@ "Geography" :> << "Spatial Analysis Expert", "GIS Methodologist" >>
    @@ "Geology" :> << "Geological Analysis Expert", "Field Methods Specialist" >>

\* the focus texts recorded per discipline and role name
DISCIPLINE_EXPERT_FOCUS ==
    "Computer Science" :>
        ( "Algorithm & Complexity Expert" :>
              "Algorithm correctness, computational complexity, theoretical analysis, proof validity"
          @@ "Experimental Design Expert" :>
              "Benchmark selection, baseline fairness, ablation studies, hyperparameter sensitivity, statistical significance"
          @@ "Systems & Implementation Expert" :>
              "Code quality, reproducibility, scalability, engineering practices, open-source availability"
          @@ "Related Work & Novelty Expert" :>
              "Literature coverage, novelty claims, fair comparison with prior work, contribution clarity"
          @@ "Clarity & Presentation Expert" :>
              "Writing quality, figure clarity, notation consistency, logical flow" )
    @@ "Engineering" :>
        ( "Systems Engineering Expert" :>
              "System design, architecture validity, integration aspects"
          @@ "Technical Reviewer" :>
              "Implementation feasibility, engineering constraints, practical applicability"
          @@ "Domain Expert" :>
              "Domain-specific requirements, standards compliance"
          @@ "Experimental Methodologist" :>
              "Testing methodology, validation procedures, measurement accuracy"
          @@ "Integration Specialist" :>
              "Overall coherence, cross-system compatibility" )

ExpertRole(id, name, focus, model, is_dynamic) ==
    [id |-> id, name |-> name, focus |-> focus, model |-> model,
     is_dynamic |-> is_dynamic]

\* DEFAULT_EXPERT_CONFIGS as the module creates it
DefaultConfigsAtImport ==
    << ExpertRole(1, "Methodology Expert",
                  "Research methodology, experimental design, validity of approach",
                  "sonnet", TRUE),
       ExpertRole(2, "Technical Expert",
                  "Technical soundness, implementation details, reproducibility",
                  "sonnet", TRUE),
       ExpertRole(3, "Domain Expert",
                  "Domain knowledge, literature integration, theoretical foundation",
                  "sonnet", TRUE),
       ExpertRole(4, "Related Work Expert",
                  "Literature coverage, novelty assessment, positioning",
                  "haiku", TRUE),
       ExpertRole(5, "Presentation Expert",
                  "Clarity, logical coherence, writing quality",
                  "haiku", TRUE) >>

\* An element of a returned list is a reference to an object: either one of
\* the module's five default objects (ref is its key, own is unused) or an
\* object the call created (ref is 0, own is the object).
NoOwnRole == ExpertRole(0, "", "", "", FALSE)
SharedDefault(k) == [ref |-> k, own |-> NoOwnRole]
NewObject(role) == [ref |-> 0, own |-> role]

\* a default list built from the names of DEFAULT_EXPERT_ROLES
DefaultListFromRoleNames ==
    LET roles == << "Methodology Expert", "Domain Expert",
                    "Statistical Reviewer", "Literature Expert",
                    "Integration Specialist" >>
    IN  [k \in 1..5 |-> [ref |-> 0,
                         own |-> ExpertRole(k, roles[k], "", "sonnet", FALSE)]]

\* list(DEFAULT_EXPERT_CONFIGS.values()): a new list of the same objects
DefaultList == [k \in 1..5 |-> SharedDefault(k)]

\* a slice that is never taken
WholeList(seq, n) == seq

\* seq[:n] for n >= 0
Prefix(seq, n) == SubSeq(seq, 1, Min(n, Len(seq)))

\* dict.get(key, default) on a table
TableGet(table, key, default) ==
    IF key \in DOMAIN table THEN table[key] ELSE default

\* a tier pattern read one slot too far
ModelAtNext(k) ==
    LET models == << "sonnet", "sonnet", "sonnet", "haiku", "haiku" >>
    IN  IF k + 1 <= Len(models) THEN models[k + 1] ELSE "haiku"

\* models[i] if i < len(models) else "haiku", for the 1-based position k
ModelAt(k) ==
    LET models == << "sonnet", "sonnet", "sonnet", "haiku", "haiku" >>
    IN  IF k <= Len(models) THEN models[k] ELSE "haiku"

\* the roster built from the discipline's own mapped roles
CuratedRoster(primary, suggested, n) ==
    LET names == Prefix(suggested, n)
    IN  [k \in 1..Len(names) |->
            NewObject(ExpertRole(
                k, names[k],
                IF /\ primary \in DOMAIN DISCIPLINE_EXPERT_FOCUS
                   /\ names[k] \in DOMAIN DISCIPLINE_EXPERT_FOCUS[primary]
                THEN DISCIPLINE_EXPERT_FOCUS[primary][names[k]]
                ELSE "Expert analysis from " \o names[k]
                     \o " perspective for " \o primary,
                ModelAt(k), TRUE))]

\* a patch that counts the slots from 1: it replaces slots 2 and 3
PatchedRosterSlotsTwoAndThree(primary, suggested, n) ==
    LET base == DefaultList
        with2 == IF Len(suggested) >= 1
                 THEN [base EXCEPT ![2] = [ref |-> 0, own |-> ExpertRole(
                          3, suggested[1], "Domain expertise in " \o primary,
                          "sonnet", TRUE)]]
                 ELSE base
        with3 == IF Len(suggested) >= 2
                 THEN [with2 EXCEPT ![3] = [ref |-> 0, own |-> ExpertRole(
                          4, suggested[2],
                          "Technical expertise related to " \o primary,
                          "haiku", TRUE)]]
                 ELSE with2
    IN  SubSeq(with3, 1, IF n <= Len(with3) THEN n ELSE Len(with3))

\* the default list with slots 3 and 4 replaced by new objects
PatchedRoster(primary, suggested, n) ==
    LET base == DefaultList
        with3 == IF Len(suggested) >= 1
                 THEN [base EXCEPT ![3] = NewObject(ExpertRole(
                          3, suggested[1], "Domain expertise in " \o primary,
                          "sonnet", TRUE))]
                 ELSE base
        with4 == IF Len(suggested) >= 2
                 THEN [with3 EXCEPT ![4] = NewObject(ExpertRole(
                          4, suggested[2],
                          "Technical expertise related to " \o primary,
                          "haiku", TRUE))]
                 ELSE with3
    IN  Prefix(with4, n)

get_expert_roles_for_disciplines(names, n) ==
    IF names = <<>> THEN Prefix(DefaultList, n)
    ELSE LET primary == names[1]
             suggested == TableGet(DISCIPLINE_TO_EXPERT_MAPPING, primary, <<>>)
         IN  IF Len(suggested) >= 5
             THEN CuratedRoster(primary, suggested, n)
             ELSE PatchedRoster(primary, suggested, n)

\* the role a list element refers to, as the caller reads it now
RoleOf(e) == IF e.ref = 0 THEN e.own ELSE DEFAULT_EXPERT_CONFIGS[e.ref]

\* the primary names callers pass: a curated discipline, a sparse one, an
\* unknown one
CallerNames == { "Computer Science", "Mathematics", "Astrology" }

\* the lists callers pass: empty, or a primary name followed by further names
\* (the curated discipline, which would change the result were it looked at)
CallerNameLists ==
    { <<>> } \cup
    { <<primary>> \o rest :
        primary \in CallerNames,
        rest \in SeqsUpTo({ "Computer Science" }, MaxNames - 1) }

NoCall == <<"none">>

\* no derivation call has been made
RolesIdle ==
    /\ DEFAULT_EXPERT_CONFIGS = DefaultConfigsAtImport
    /\ experts = <<>>
    /\ discipline_names = NoCall
    /\ num_experts = 0

\* a call of get_expert_roles_for_disciplines
derive_roles ==
    /\ pc \in {"roles", "derived", "modified"}
    /\ \E names \in CallerNameLists, n \in 0..MaxTarget :
        /\ experts' = get_expert_roles_for_disciplines(names, n)
        /\ discipline_names' = names
        /\ num_experts' = n
    /\ pc' = "derived"
    /\ UNCHANGED <<DEFAULT_EXPERT_CONFIGS, pipeline_vars, value_vars, pure_call>>

\* the caller assigns to an attribute of a role of the list it holds
\* (ExpertRole is a plain dataclass: assignment is allowed)
caller_renames_role ==
    /\ pc \in {"derived", "modified"}
    /\ \E i \in 1..Len(experts) :
        /\ RoleOf(experts[i]).name # "Renamed"
        /\ IF experts[i].ref = 0
           THEN /\ experts' = [experts EXCEPT ![i].own.name = "Renamed"]
                /\ UNCHANGED DEFAULT_EXPERT_CONFIGS
           ELSE /\ DEFAULT_EXPERT_CONFIGS' =
                      [DEFAULT_EXPERT_CONFIGS EXCEPT
                          ![experts[i].ref].name = "Renamed"]
                /\ UNCHANGED experts
    /\ pc' = "modified"
    /\ UNCHANGED <<discipline_names, num_experts, pipeline_vars, value_vars, pure_call>>

----------------------------------------------------------------------------
(* Operations on a classification value: the validation pass, the           *)
(* serializations and the reconstruction                                    *)

\* longest discipline list of a classification handed to these operations
MaxDisciplines == 2
\* most validation passes run on one classification
MaxPasses == 2

\* a Python dict, as distinct from a dataclass instance with the same fields
Dict(items) == [dict |-> items]

\* an exception instead of a value
Raised(e) == [raised |-> e]

\* the dict written to discipline_result.json
_classification_to_dict(c) ==
    Dict([disciplines |->
              [k \in 1..Len(c.disciplines) |->
                  Dict([discipline_id |-> c.disciplines[k].discipline_id,
                        name |-> c.disciplines[k].name,
                        relevance_score |-> c.disciplines[k].relevance_score,
                        evidence |-> c.disciplines[k].evidence])],
          confidence_score |-> c.confidence_score,
          classification_reasoning |-> c.classification_reasoning,
          discipline_classification_id |-> c.discipline_classification_id])

\* the payload _store_classification_to_mcp writes as the analysis section
classification_content(title, c) ==
    Dict([disciplines |->
              [k \in 1..Len(c.disciplines) |->
                  Dict([id |-> c.disciplines[k].discipline_id,
                        name |-> c.disciplines[k].name,
                        relevance_score |-> c.disciplines[k].relevance_score,
                        evidence |-> c.disciplines[k].evidence])],
          confidence_score |-> c.confidence_score,
          reasoning |-> c.classification_reasoning,
          paper_title |-> title,
          timestamp |-> "now"])

\* classification.model_dump(), the serialization of the debug save
model_dump(c) ==
    IF "model_dump" \in DisciplineClassificationAttributes
    THEN _classification_to_dict(c)
    ELSE Raised("AttributeError: 'DisciplineClassification' object has no attribute 'model_dump'")

\* the keyword arguments the generated __init__ takes (none has a default)
DisciplineClassificationFields ==
    { "disciplines", "confidence_score", "classification_reasoning",
      "discipline_classification_id" }

\* DisciplineClassification(**data), the reconstruction of the debug load:
\* the keys must be the fields, and the values are stored as they are
_load_classifier_output(data) ==
    IF "raised" \in DOMAIN data THEN data
    ELSE IF DOMAIN data.dict # DisciplineClassificationFields
    THEN Raised("TypeError: __init__() got an unexpected keyword argument")
    ELSE DisciplineClassification(data.dict.disciplines,
                                  data.dict.confidence_score,
                                  data.dict.classification_reasoning,
                                  data.dict.discipline_classification_id)

Serializers == { "_classification_to_dict", "classification_content",
                 "model_dump" }

Serialize(serializer, c) ==
    CASE serializer = "_classification_to_dict" -> _classification_to_dict(c)
      [] serializer = "classification_content" ->
             classification_content("A Paper", c)
      [] serializer = "model_dump" -> model_dump(c)

\* the discipline entries a classification value may hold: a valid one, one
\* with a foreign name and a score above 1, one with a negative score, one
\* whose id is not in the taxonomy
ResultKinds ==
    { DisciplineResult(1, "Computer Science", 5, "e1"),
      DisciplineResult(1, "Medicine", 17, "e2"),
      DisciplineResult(2, "Mathematics", -2, ""),
      DisciplineResult(99, "Astrology", 5, "e3") }

Classifications ==
    { DisciplineClassification(ds, conf, "because", id) :
        ds \in SeqsUpTo(ResultKinds, MaxDisciplines),
        conf \in {3, 14},
        id \in {"", "analysis-1"} }

NoPayload == [serializer |-> "none"]
NotReconstructed == [none |-> TRUE]

\* no operation on a classification value has been run
ValueIdle ==
    /\ validation_passes = <<>>
    /\ payload = NoPayload
    /\ reconstructed = NotReconstructed

\* the classification the passes have arrived at
CurrentValue == validation_passes[Len(validation_passes)]

\* one more run of the validation pass
validate_again ==
    /\ pc = "value"
    /\ Len(validation_passes) <= MaxPasses
    /\ validation_passes' =
          Append(validation_passes, _validate_disciplines(CurrentValue))
    /\ UNCHANGED <<pc, payload, reconstructed, pipeline_vars, role_vars, pure_call>>

\* a serialization of the current classification, and the reconstruction
\* from what it produced
round_trip ==
    /\ pc = "value"
    /\ \E serializer \in Serializers :
        /\ payload' = [serializer |-> serializer, source |-> CurrentValue,
                       data |-> Serialize(serializer, CurrentValue)]
        /\ reconstructed' =
              _load_classifier_output(Serialize(serializer, CurrentValue))
    /\ UNCHANGED <<pc, validation_passes, pipeline_vars, role_vars, pure_call>>

----------------------------------------------------------------------------
(* classify_paper *)

\* an exception leaves the running method; execute turns it into an error
\* result
Raise(e) ==
    /\ error' = e
    /\ pc' = "done"
    /\ status' = IF caller = "execute" THEN "error" ELSE status
    /\ result' = IF caller = "execute" THEN [error |-> e] ELSE result

\* a storage decision that looks at the switch only
StorageAttemptedWhenEnabled == store_to_mcp

\* the branch of classify_paper after the validation pass
StorageAttempted ==
    store_to_mcp /\ paper_content.structured_content_overview_id # ""

\* classify_paper up to the choice of the storage branch: the oracle call,
\* the parsing step and the validation pass
classify_paper ==
    /\ pc = "classify"
    /\ \E oracle \in OracleOutcomes(MaxEntries) :
        /\ classification_oracle' = oracle
        /\ calls' = calls \o OracleCalls("classification_oracle", oracle.kind)
        /\ IF oracle.kind = "error"
           THEN /\ Raise("classification oracle raised")
                /\ cp_state' = "raised"
                /\ UNCHANGED classification
           ELSE IF oracle.kind = "nonobject"
           THEN /\ Raise("AttributeError: classification artifact has no get")
                /\ cp_state' = "raised"
                /\ UNCHANGED classification
           ELSE /\ classification' =
                      _validate_disciplines(_parse_classification_result(oracle))
                /\ pc' = IF StorageAttempted THEN "store" ELSE "local_id"
                /\ UNCHANGED <<cp_state, status, error, result>>
    /\ UNCHANGED <<pure_call, value_vars, role_vars, create_result>>
    /\ UNCHANGED <<caller, file_id, structured_content_overview_id,
                   store_to_mcp, parse_locals, paper_content, extraction_oracle>>

\* classify_paper returns to its caller
Returned(c) ==
    /\ classification' = c
    /\ cp_state' = "returned"
    /\ pc' = IF caller = "execute" THEN "output" ELSE "done"
    /\ UNCHANGED <<status, error, result>>

\* a create step whose failure is only logged
CreateFailureIgnored(created) == FALSE

\* create_result.status != "success"
CreateFailed(created) == created.status # "success"

\* a storage branch that gives up after a failed section write
StoreCallsUntilFailure(created, section_ok, complete_ok) ==
    << Call("create_analysis_overview", created.status = "success"),
       Call("create_analysis_section", section_ok) >>
    \o (IF section_ok
        THEN << Call("complete_analysis_overview", complete_ok) >>
        ELSE <<>>)

\* the calls of the storage branch once the create step has succeeded: the
\* section write, whose result is not looked at, and the finalize step, whose
\* failure is logged
StoreCalls(created, section_ok, complete_ok) ==
    << Call("create_analysis_overview", created.status = "success"),
       Call("create_analysis_section", section_ok),
       Call("complete_analysis_overview", complete_ok) >>

\* the storage branch: create, section write, finalize, then the return
_store_classification_to_mcp ==
    /\ pc = "store"
    /\ \E created \in CreateOutcomes, section_ok \in BOOLEAN,
          complete_ok \in BOOLEAN :
        /\ create_result' = created
        /\ IF CreateFailed(created)
           THEN /\ calls' = Append(calls,
                                   Call("create_analysis_overview", FALSE))
                /\ Raise("ValueError: Failed to create analysis overview")
                /\ cp_state' = "raised"
                /\ UNCHANGED classification
           ELSE /\ calls' = calls \o StoreCalls(created, section_ok, complete_ok)
                /\ Returned([classification EXCEPT
                       !.discipline_classification_id =
                           GetOr(created.analysis_id, "")])
    /\ UNCHANGED <<pure_call, value_vars, role_vars>>
    /\ UNCHANGED <<caller, file_id, structured_content_overview_id,
                   store_to_mcp, parse_locals, paper_content, extraction_oracle,
                   classification_oracle>>

\* the other branch: a locally generated id, then the return
assign_local_id ==
    /\ pc = "local_id"
    /\ Returned([classification EXCEPT
           !.discipline_classification_id = "uuid4"])
    /\ UNCHANGED <<pure_call, value_vars, role_vars, create_result>>
    /\ UNCHANGED <<caller, file_id, structured_content_overview_id,
                   store_to_mcp, parse_locals, paper_content, extraction_oracle,
                   classification_oracle, calls>>

\* A direct call of classify_paper, with any PaperContent
InitClassify ==
    /\ caller = "classify_paper"
    /\ pc = "classify"
    /\ file_id = Absent
    /\ structured_content_overview_id = Absent
    /\ store_to_mcp \in BOOLEAN
    /\ paper_content \in
         { PaperContent("A Paper", << "An abstract." >>,
                        << PaperSection("full_paper", "Full Paper",
                                        "content", "page texts", 1) >>,
                        sc, Absent) :
             sc \in {"", "content-1"} }
    /\ parse_locals = NotParsed
    /\ extraction_oracle = "notcalled"
    /\ classification_oracle = NotCalled
    /\ classification = NoClassification
    /\ cp_state = "idle"
    /\ calls = <<>>
    /\ status = "none"
    /\ error = ""
    /\ result = NoResult
    /\ create_result = NotCreated
    /\ ValueIdle
    /\ RolesIdle
    /\ FunctionsIdle

NextClassify ==
    \/ classify_paper
    \/ _store_classification_to_mcp
    \/ assign_local_id

SpecClassify == InitClassify /\ [][NextClassify]_vars

----------------------------------------------------------------------------
(* The parser's text heuristics *)

\* the categories and their keywords, in the order the dict lists them
type_mappings ==
    << [section_type |-> "introduction",
        keywords |-> << "introduction", "intro", "background" >>],
       [section_type |-> "methods",
        keywords |-> << "method", "methodology", "approach",
                        "materials and methods" >>],
       [section_type |-> "results",
        keywords |-> << "result", "finding", "experiment" >>],
       [section_type |-> "discussion",
        keywords |-> << "discussion", "analysis" >>],
       [section_type |-> "conclusion",
        keywords |-> << "conclusion", "summary", "concluding" >>],
       [section_type |-> "abstract",
        keywords |-> << "abstract" >>],
       [section_type |-> "references",
        keywords |-> << "reference", "bibliography", "citation" >>],
       [section_type |-> "appendix",
        keywords |-> << "appendix", "supplementary" >>] >>

\* the categories one of whose keywords occurs in the lowercased name
MatchingCategories(section_name) ==
    { k \in DOMAIN type_mappings :
        \E j \in DOMAIN type_mappings[k].keywords :
            contains(type_mappings[k].keywords[j], lower(section_name)) }

\* an inference in which the last matching category wins
_infer_section_type_last_match(section_name, default_type) ==
    LET matching == MatchingCategories(section_name)
    IN  IF matching # {}
        THEN type_mappings[CHOOSE k \in matching :
                               \A j \in matching : j <= k].section_type
        ELSE IF default_type # "" THEN default_type
        ELSE "content"

\* the first matching category, else default_type or "content"
_infer_section_type(section_name, default_type) ==
    LET matching == MatchingCategories(section_name)
    IN  IF matching # {}
        THEN type_mappings[CHOOSE k \in matching :
                               \A j \in matching : k <= j].section_type
        ELSE IF default_type # "" THEN default_type
        ELSE "content"

\* range(idx + 1, min(idx + 20, len(lines)))
AbstractWindow == 20

\* "\n".join(abstract_lines).strip(), kept as lines: blank lines at both
\* ends go, the first line loses its leading blanks and the last line its
\* trailing ones
RECURSIVE StripJoined(_)
StripJoined(abstract_lines) ==
    IF abstract_lines = <<>> THEN <<>>
    ELSE IF strip(Head(abstract_lines)) = ""
    THEN StripJoined(Tail(abstract_lines))
    ELSE IF strip(abstract_lines[Len(abstract_lines)]) = ""
    THEN StripJoined(SubSeq(abstract_lines, 1, Len(abstract_lines) - 1))
    ELSE [k \in 1..Len(abstract_lines) |->
            LET left == IF k = 1 THEN lstrip(abstract_lines[k])
                        ELSE abstract_lines[k]
            IN  IF k = Len(abstract_lines) THEN rstrip(left) ELSE left]

\* the inner loop: the lines from position j up to position last, ending at
\* the first line that starts with "#"
RECURSIVE AbstractLines(_, _, _)
AbstractLines(lines, j, last) ==
    IF j > last \/ startswith(lines[j], "#") THEN <<>>
    ELSE << lines[j] >> \o AbstractLines(lines, j + 1, last)

\* the abstract branch for the stripped line: lines.index(line), which raises
\* when no line equals the stripped one, then the inner loop
AbstractAfter(lines, line) ==
    LET hits == { k \in 1..Len(lines) : lines[k] = line }
        idx1 == CHOOSE k \in hits : \A j \in hits : k <= j
    IN  IF hits = {}
        THEN [raised |-> "ValueError: line is not in list",
              abstract |-> <<>>]
        ELSE [raised |-> "",
              abstract |->
                  IF idx1 < Len(lines)
                  THEN StripJoined(
                           AbstractLines(lines, idx1 + 1,
                                         Min(idx1 + AbstractWindow - 1,
                                             Len(lines))))
                  ELSE <<>>]

\* the outer loop from position i on, with the title found so far
RECURSIVE BasicScan(_, _, _)
BasicScan(lines, i, title) ==
    IF i > Len(lines)
    THEN [title |-> title, abstract |-> <<>>, raised |-> ""]
    ELSE LET line == strip(lines[i])
         IN  IF startswith(line, "# ") /\ title = ""
             THEN BasicScan(lines, i + 1,
                            strip(SubSeq(line, 3, Len(line))))
             ELSE IF contains("abstract", lower(line))
             THEN [title |-> title,
                   abstract |-> AbstractAfter(lines, line).abstract,
                   raised |-> AbstractAfter(lines, line).raised]
             ELSE BasicScan(lines, i + 1, title)

\* _basic_extraction on paper_markdown.split("\n"): the dict it returns, or
\* the exception it raises
_basic_extraction(lines) ==
    LET scanned == BasicScan(lines, 1, "")
    IN  IF scanned.raised # "" THEN Raised(scanned.raised)
        ELSE Dict([title |-> IF scanned.title = "" THEN "Untitled Paper"
                             ELSE scanned.title,
                   abstract |-> scanned.abstract])

\* _build_paper_markdown, as the lines it joins with "\n"
RECURSIVE MarkdownLines(_)
MarkdownLines(sorted_sections) ==
    IF sorted_sections = <<>> THEN <<>>
    ELSE << "## " \o Head(sorted_sections).section_name, "",
            Head(sorted_sections).content, "" >>
         \o MarkdownLines(Tail(sorted_sections))

----------------------------------------------------------------------------
(* Phase 1: parse_paper *)

\* execute's entry check: not file_id and not structured_content_overview_id
NoInputSource(f, s) == ~Truthy(f) /\ ~Truthy(s)

\* parse_paper up to the choice of its source: "structured", "pdf", or the
\* exception it raises
parse_paper_source(f, s) ==
    IF ~Truthy(f) /\ ~Truthy(s)
    THEN "ValueError: At least one of file_id or structured_content_overview_id must be provided"
    ELSE IF Truthy(s) THEN "structured"
    ELSE IF Truthy(f) THEN "pdf"
    ELSE "ValueError: No valid input source"

\* execute, from its entry to parse_paper's first collaborator call
execute ==
    /\ pc = "start"
    /\ caller = "execute"
    /\ IF NoInputSource(file_id, structured_content_overview_id)
       THEN Raise("ValueError: Either file_id or structured_content_overview_id must be provided")
       ELSE LET source == parse_paper_source(file_id,
                                             structured_content_overview_id)
            IN  IF source \in {"structured", "pdf"}
                THEN /\ pc' = IF source = "structured" THEN "parse_structured"
                              ELSE "parse_pdf"
                     /\ UNCHANGED <<status, error, result>>
                ELSE Raise(source)
    /\ UNCHANGED <<pure_call, value_vars, role_vars, create_result>>
    /\ UNCHANGED <<caller, file_id, structured_content_overview_id,
                   store_to_mcp, parse_locals, paper_content, extraction_oracle,
                   classification_oracle, classification, cp_state, calls>>

\* One entry of the store's section listing. The name and the section's id
\* (its position in the listing) are always listed; "type", "section_type",
\* "order" and "section_order" may be missing.
ListedSection(name, type, section_type, order, section_order) ==
    [name |-> name, type |-> type, section_type |-> section_type,
     order |-> order, section_order |-> section_order]

\* the entries the store chooses from
ListedSections ==
    { ListedSection("Introduction", Some("text"), Absent, Some(1), Absent),
      ListedSection("Materials and Methods", Absent, Some("content"),
                    Some(2), Absent),
      ListedSection("Results", Absent, Absent, Some(0), Absent),
      ListedSection("Notes", Some("paragraph"), Absent, Absent, Some(1)),
      ListedSection("", Absent, Absent, Absent, Absent) }

\* get_content_section_detail: failure, or success with the section's text
DetailOutcomes == { [status |-> "error"], [status |-> "success"] }

\* section.get("type") or section.get("section_type", "content")
ListedType(section) ==
    IF Truthy(section.type) THEN section.type[1]
    ELSE GetOr(section.section_type, "content")

\* section.get("order") or section.get("section_order", idx + 1), for the
\* section at position idx + 1 of the listing: a listed "order" of 0 is falsy
ListedOrder(section, position) ==
    IF section.order # Absent /\ section.order[1] # 0
    THEN section.order[1]
    ELSE GetOr(section.section_order, position)

\* the id the store lists for the section at a position
SectionId(position) == "s" \o ToString(position)

\* a loop that keeps a section whose detail retrieval failed
DetailFailureIgnored(detail_result) == FALSE

\* detail_result.status != "success"
DetailFailed(detail_result) == detail_result.status # "success"

\* insertion into a list sorted by ascending section_order, after its equals
InsertBySectionOrder(sorted, sec) ==
    LET ahead == { i \in 1..Len(sorted) :
                     sorted[i].section_order <= sec.section_order }
        k == Cardinality(ahead)
    IN  SubSeq(sorted, 1, k) \o <<sec>> \o SubSeq(sorted, k + 1, Len(sorted))

\* sorted(paper_sections, key=lambda s: s.section_order)
RECURSIVE SortedBySectionOrder(_)
SortedBySectionOrder(secs) ==
    IF secs = <<>> THEN <<>>
    ELSE InsertBySectionOrder(
             SortedBySectionOrder(SubSeq(secs, 1, Len(secs) - 1)),
             secs[Len(secs)])

\* the loop over the listed sections: a section whose detail retrieval fails
\* is skipped
RECURSIVE BuildSections(_, _, _)
BuildSections(sections_data, details, position) ==
    IF position > Len(sections_data) THEN <<>>
    ELSE LET section == sections_data[position]
             rest == BuildSections(sections_data, details, position + 1)
         IN  IF DetailFailed(details[position])
             THEN rest
             ELSE << PaperSection(
                         SectionId(position),
                         section.name,
                         _infer_section_type(section.name,
                                             ListedType(section)),
                         "text of " \o SectionId(position),
                         ListedOrder(section, position)) >> \o rest

_build_paper_markdown(sections) ==
    MarkdownLines(SortedBySectionOrder(sections))

\* PaperContent.get_full_text, as the lines it joins (keywords are not
\* modelled: their line is the empty one)
RECURSIVE FullTextSections(_)
FullTextSections(sorted_sections) ==
    IF sorted_sections = <<>> THEN <<>>
    ELSE << "## " \o Head(sorted_sections).section_name,
            Head(sorted_sections).content, "" >>
         \o FullTextSections(Tail(sorted_sections))

get_full_text(paper) ==
    << "# " \o paper.title, "", "## Abstract" >> \o paper.abstract
    \o << "", "", "" >>
    \o FullTextSections(SortedBySectionOrder(paper.sections))

\* what parse_paper holds once the sections are read
ParseLocals(sections_data, details, sections, content_id) ==
    [sections_data |-> sections_data,
     details |-> details,
     sections |-> sections,
     paper_markdown |-> _build_paper_markdown(sections),
     structured_content_overview_id |-> content_id]

_parse_from_structured_content ==
    /\ pc = "parse_structured"
    /\ \E list_ok \in BOOLEAN,
          sections_data \in SeqsUpTo(ListedSections,
                                     IF caller = "execute"
                                     THEN ExecMaxSections
                                     ELSE MaxSections) :
       \E details \in [1..Len(sections_data) -> DetailOutcomes] :
        IF ~list_ok
        THEN /\ calls' = Append(calls, Call("get_content_section_list", FALSE))
             /\ Raise("ValueError: Failed to list content sections")
             /\ UNCHANGED parse_locals
        ELSE IF sections_data = <<>>
        THEN /\ calls' = Append(calls, Call("get_content_section_list", TRUE))
             /\ Raise("ValueError: No content sections found")
             /\ UNCHANGED parse_locals
        ELSE /\ calls' = calls
                    \o << Call("get_content_section_list", TRUE) >>
                    \o [k \in 1..Len(sections_data) |->
                           Call("get_content_section_detail",
                                details[k].status = "success")]
             /\ parse_locals' =
                    ParseLocals(sections_data, details,
                                SortedBySectionOrder(
                                    BuildSections(sections_data, details, 1)),
                                structured_content_overview_id[1])
             /\ pc' = "extract"
             /\ UNCHANGED <<status, error, result>>
    /\ UNCHANGED <<pure_call, value_vars, role_vars, create_result>>
    /\ UNCHANGED <<caller, file_id, structured_content_overview_id,
                   store_to_mcp, paper_content, extraction_oracle,
                   classification_oracle, classification, cp_state>>

\* create_content_overview: failure, success with an id, success without one
OverviewOutcomes ==
    { [status |-> "error", id |-> Absent],
      [status |-> "success", id |-> Some("overview-1")],
      [status |-> "success", id |-> Absent] }

\* get_pdf_pages(start=1, end=1): failure, or the page count with or without
\* page texts
PagesOutcomes ==
    { [status |-> "error", total_pages |-> 1, has_content |-> FALSE],
      [status |-> "success", total_pages |-> 1, has_content |-> TRUE],
      [status |-> "success", total_pages |-> 1, has_content |-> FALSE],
      [status |-> "success", total_pages |-> 2, has_content |-> TRUE] }

\* get_pdf_pages(start=1, end=total_pages): its status is not looked at
AllPagesOutcomes ==
    { [status |-> "error", has_content |-> FALSE],
      [status |-> "success", has_content |-> TRUE],
      [status |-> "success", has_content |-> FALSE] }

\* create_content_section: failure, success with an id, success without one
SectionStoreOutcomes ==
    { [status |-> "error", id |-> Absent],
      [status |-> "success", id |-> Some("section-1")],
      [status |-> "success", id |-> Absent] }

\* an overview whose id is never asked for
OverviewIdNotChecked(overview_result) == FALSE

\* overview_id = output.get("id") if output else None; not overview_id
OverviewIdMissing(overview_result) == ~Truthy(overview_result.id)

\* _parse_from_pdf_with_mcp_storage with _parse_from_pdf inside it
_parse_from_pdf_with_mcp_storage ==
    /\ pc = "parse_pdf"
    /\ \E overview \in OverviewOutcomes, pages \in PagesOutcomes,
          all_pages \in AllPagesOutcomes, stored \in SectionStoreOutcomes :
        LET c1 == Append(calls, Call("create_content_overview",
                                     overview.status = "success"))
            c2 == Append(c1, Call("get_pdf_pages", pages.status = "success"))
            c3 == IF pages.total_pages > 1
                  THEN Append(c2, Call("get_pdf_pages",
                                       all_pages.status = "success"))
                  ELSE c2
            has_content == IF pages.total_pages > 1
                           THEN all_pages.has_content
                           ELSE pages.has_content
        IN  IF overview.status # "success"
            THEN /\ calls' = c1
                 /\ Raise("ValueError: Failed to create content overview")
                 /\ UNCHANGED parse_locals
            ELSE IF OverviewIdMissing(overview)
            THEN /\ calls' = c1
                 /\ Raise("ValueError: No overview ID returned")
                 /\ UNCHANGED parse_locals
            ELSE IF pages.status # "success"
            THEN /\ calls' = c2
                 /\ Raise("ValueError: Failed to get PDF pages")
                 /\ UNCHANGED parse_locals
            ELSE IF ~has_content
            THEN /\ calls' = c3
                 /\ Raise("ValueError: No pages data retrieved")
                 /\ UNCHANGED parse_locals
            ELSE /\ calls' = Append(c3, Call("create_content_section",
                                             stored.status = "success"))
                 /\ parse_locals' =
                        ParseLocals(
                            <<>>, <<>>,
                            << PaperSection(
                                   IF stored.status = "success"
                                      /\ Truthy(stored.id)
                                   THEN stored.id[1] ELSE "full_paper",
                                   "Full Paper", "content", "page texts",
                                   1) >>,
                            GetOr(overview.id, ""))
                 /\ pc' = "extract"
                 /\ UNCHANGED <<status, error, result>>
    /\ UNCHANGED <<pure_call, value_vars, role_vars, create_result>>
    /\ UNCHANGED <<caller, file_id, structured_content_overview_id,
                   store_to_mcp, paper_content, extraction_oracle,
                   classification_oracle, classification, cp_state>>

\* what the extraction oracle may do (see OracleOutcomes)
ExtractionOutcomes == {"error", "absent", "notjson", "nonobject", "object"}

\* what _extract_paper_features returns: the object the oracle wrote, or the
\* heuristic's answer for the paper text
Extracted(kind, paper_markdown) ==
    IF kind = "object"
    THEN Dict([title |-> "Oracle Title", abstract |-> << "Oracle abstract" >>])
    ELSE _basic_extraction(paper_markdown)

\* execute's save of the parser output: json.dump(paper_content.model_dump())
\* either writes the file or raises the AttributeError of the attribute lookup
_save_parser_output ==
    IF "model_dump" \in PaperContentAttributes THEN "saved"
    ELSE "AttributeError: 'PaperContent' object has no attribute 'model_dump'"

\* _extract_paper_features and the rest of parse_paper; in a run of execute
\* also the save of the parser output
_extract_paper_features ==
    /\ pc = "extract"
    /\ \E kind \in ExtractionOutcomes :
        LET extracted == Extracted(kind, parse_locals.paper_markdown)
        IN  /\ extraction_oracle' = kind
            /\ calls' = calls \o OracleCalls("extraction_oracle", kind)
            /\ IF kind = "error"
               THEN /\ Raise("extraction oracle raised")
                    /\ UNCHANGED paper_content
               ELSE IF kind = "nonobject"
               THEN /\ Raise("AttributeError: extraction artifact has no get")
                    /\ UNCHANGED paper_content
               ELSE IF "raised" \in DOMAIN extracted
               THEN /\ Raise(extracted.raised)
                    /\ UNCHANGED paper_content
               ELSE /\ paper_content' =
                          PaperContent(
                              extracted.dict.title,
                              extracted.dict.abstract,
                              parse_locals.sections,
                              parse_locals.structured_content_overview_id,
                              file_id)
                    /\ IF caller # "execute"
                       THEN /\ pc' = "parsed"
                            /\ UNCHANGED <<status, error, result>>
                       ELSE IF _save_parser_output = "saved"
                       THEN /\ pc' = "classify"
                            /\ UNCHANGED <<status, error, result>>
                       ELSE Raise(_save_parser_output)
    /\ UNCHANGED <<pure_call, value_vars, role_vars, create_result>>
    /\ UNCHANGED <<caller, file_id, structured_content_overview_id,
                   store_to_mcp, parse_locals, classification_oracle,
                   classification, cp_state>>

----------------------------------------------------------------------------
(* execute *)

\* execute's save of the classifier output:
\* json.dump(classification.model_dump())
_save_classifier_output ==
    IF "model_dump" \in DisciplineClassificationAttributes THEN "saved"
    ELSE "AttributeError: 'DisciplineClassification' object has no attribute 'model_dump'"

\* the end of execute: the save of the classifier output and the result
\* payload
execute_output ==
    /\ pc = "output"
    /\ IF _save_classifier_output = "saved"
       THEN /\ result' =
                 [discipline_classification_id |->
                      classification.discipline_classification_id,
                  disciplines |-> classification.disciplines,
                  confidence_score |-> classification.confidence_score,
                  classification_reasoning |->
                      classification.classification_reasoning,
                  paper_title |-> paper_content.title,
                  paper_sections |-> Len(paper_content.sections)]
            /\ status' = "success"
            /\ pc' = "done"
            /\ UNCHANGED error
       ELSE Raise(_save_classifier_output)
    /\ UNCHANGED <<pure_call, value_vars, role_vars, create_result>>
    /\ UNCHANGED <<caller, file_id, structured_content_overview_id,
                   store_to_mcp, parse_locals, paper_content, extraction_oracle,
                   classification_oracle, classification, cp_state, calls>>

\* the keyword arguments a caller may pass: None, "" or an id
FileIds == { Absent, Some(""), Some("file-1") }
ContentIds == { Absent, Some(""), Some("content-1") }

\* A run of execute. The agent's constructor does not bind store_to_mcp (it
\* passes upload_to_mcp), so both values are explored.
Init ==
    /\ caller = "execute"
    /\ pc = "start"
    /\ file_id \in FileIds
    /\ structured_content_overview_id \in ContentIds
    /\ store_to_mcp \in BOOLEAN
    /\ parse_locals = NotParsed
    /\ paper_content = NoPaper
    /\ extraction_oracle = "notcalled"
    /\ classification_oracle = NotCalled
    /\ classification = NoClassification
    /\ cp_state = "idle"
    /\ calls = <<>>
    /\ status = "none"
    /\ error = ""
    /\ result = NoResult
    /\ create_result = NotCreated
    /\ ValueIdle
    /\ RolesIdle
    /\ FunctionsIdle

\* The steps of a run of execute. The save of the parser output raises in
\* every run that parsed a paper, so phase 2 (classify_paper and
\* execute_output) is never entered from execute; NextClassify has its
\* steps.
Next ==
    \/ execute
    \/ _parse_from_structured_content
    \/ _parse_from_pdf_with_mcp_storage
    \/ _extract_paper_features

Spec == Init /\ [][Next]_vars

\* parse_paper, from its entry to its first collaborator call
parse_paper ==
    /\ pc = "start"
    /\ caller = "parse_paper"
    /\ LET source == parse_paper_source(file_id,
                                        structured_content_overview_id)
       IN  IF source \in {"structured", "pdf"}
           THEN /\ pc' = IF source = "structured" THEN "parse_structured"
                         ELSE "parse_pdf"
                /\ UNCHANGED <<status, error, result>>
           ELSE Raise(source)
    /\ UNCHANGED <<pure_call, value_vars, role_vars, create_result>>
    /\ UNCHANGED <<caller, file_id, structured_content_overview_id,
                   store_to_mcp, parse_locals, paper_content, extraction_oracle,
                   classification_oracle, classification, cp_state, calls>>

\* A direct call of parse_paper, with any arguments
InitParse ==
    /\ caller = "parse_paper"
    /\ pc = "start"
    /\ file_id \in FileIds
    /\ structured_content_overview_id \in ContentIds
    /\ store_to_mcp \in BOOLEAN
    /\ parse_locals = NotParsed
    /\ paper_content = NoPaper
    /\ extraction_oracle = "notcalled"
    /\ classification_oracle = NotCalled
    /\ classification = NoClassification
    /\ cp_state = "idle"
    /\ calls = <<>>
    /\ status = "none"
    /\ error = ""
    /\ result = NoResult
    /\ create_result = NotCreated
    /\ ValueIdle
    /\ RolesIdle
    /\ FunctionsIdle

NextParse ==
    \/ parse_paper
    \/ _parse_from_structured_content
    \/ _parse_from_pdf_with_mcp_storage
    \/ _extract_paper_features

SpecParse == InitParse /\ [][NextParse]_vars

\* the state of the pipeline when none is running
PipelineIdle ==
    /\ caller = "none"
    /\ file_id = Absent
    /\ structured_content_overview_id = Absent
    /\ store_to_mcp = TRUE
    /\ parse_locals = NotParsed
    /\ paper_content = NoPaper
    /\ extraction_oracle = "notcalled"
    /\ classification_oracle = NotCalled
    /\ classification = NoClassification
    /\ cp_state = "idle"
    /\ calls = <<>>
    /\ status = "none"
    /\ error = ""
    /\ result = NoResult
    /\ create_result = NotCreated

\* Operations on any classification value
InitValue ==
    /\ pc = "value"
    /\ PipelineIdle
    /\ RolesIdle
    /\ FunctionsIdle
    /\ validation_passes \in { << c >> : c \in Classifications }
    /\ payload = NoPayload
    /\ reconstructed = NotReconstructed

NextValue ==
    \/ validate_again
    \/ round_trip

SpecValue == InitValue /\ [][NextValue]_vars

\* Derivation calls and what their caller does with the lists
InitRoles ==
    /\ pc = "roles"
    /\ PipelineIdle
    /\ ValueIdle
    /\ RolesIdle
    /\ FunctionsIdle

NextRoles ==
    \/ derive_roles
    \/ caller_renames_role

SpecRoles == InitRoles /\ [][NextRoles]_vars

----------------------------------------------------------------------------
(* Direct calls of the taxonomy lookups *)

\* largest id a caller looks up
MaxLookupId == 25

\* a comparison of the initial letters only
get_discipline_by_name_initial(name) ==
    LET name_lower == lower(name)
        hits == { k \in DOMAIN DISCIPLINES :
                    name_lower # ""
                    /\ Head(lower(DISCIPLINES[k].name)) = Head(name_lower) }
    IN  IF hits = {} THEN Absent
        ELSE Some(DISCIPLINES[CHOOSE k \in hits : \A j \in hits : k <= j])

\* the first definition, in table order, whose lowercased name equals the
\* lowercased argument, or None
get_discipline_by_name(name) ==
    LET name_lower == lower(name)
        hits == { k \in DOMAIN DISCIPLINES :
                    lower(DISCIPLINES[k].name) = name_lower }
    IN  IF hits = {} THEN Absent
        ELSE Some(DISCIPLINES[CHOOSE k \in hits : \A j \in hits : k <= j])

\* [d.name for d in DISCIPLINES.values()]
get_all_discipline_names == [k \in DOMAIN DISCIPLINES |-> DISCIPLINES[k].name]

\* the names a caller looks up: every canonical name, as written, in upper
\* case letters of another spelling, and names the table does not hold
LookupNames ==
    { get_all_discipline_names[k] : k \in DOMAIN get_all_discipline_names }
    \cup { "computer science", "LAW", "Alchemy", "" }

Evaluated(op, args, value) == [op |-> op, args |-> args, result |-> value]

lookup_by_id ==
    /\ pc = "functions"
    /\ \E discipline_id \in (0 - 1)..MaxLookupId :
        pure_call' = Evaluated("get_discipline_by_id", discipline_id,
                               get_discipline_by_id(discipline_id))
    /\ pc' = "evaluated"
    /\ UNCHANGED <<pipeline_vars, value_vars, role_vars>>

lookup_by_name ==
    /\ pc = "functions"
    /\ \E name \in LookupNames :
        pure_call' = Evaluated("get_discipline_by_name", name,
                               get_discipline_by_name(name))
    /\ pc' = "evaluated"
    /\ UNCHANGED <<pipeline_vars, value_vars, role_vars>>

\* the section names and the store-provided types a caller passes
SectionNames ==
    { "Introduction", "Background and Related Work", "Materials and Methods",
      "METHODOLOGY", "Experimental Results", "Results and Discussion",
      "Data Analysis", "Summary of Findings", "Conclusions", "Abstract",
      "References", "Appendix A", "Notes", "Acknowledgements", "" }

StoreTypes == { "content", "", "paragraph", "figure" }

infer_section_type ==
    /\ pc = "functions"
    /\ \E section_name \in SectionNames, default_type \in StoreTypes :
        pure_call' = Evaluated("_infer_section_type",
                               << section_name, default_type >>,
                               _infer_section_type(section_name, default_type))
    /\ pc' = "evaluated"
    /\ UNCHANGED <<pipeline_vars, value_vars, role_vars>>

\* most lines a paper text has between its abstract line and what follows
MaxBodyLines == 21

\* The paper texts handed to the heuristic: an opening, a line naming the
\* abstract (or none), n body lines and an ending.
Openings ==
    { <<>>, << "# A Title", "" >>, << "# Abstract Algebra" >>,
      << "Preprint" >> }

AbstractHeadings ==
    { <<>>, << "## Abstract" >>, << "Abstract" >>, << "  Abstract" >> }

Endings == { <<>>, << "## Methods", "We measure." >> }

BodyLines(n) == [k \in 1..n |-> "line " \o ToString(k)]

PaperTexts ==
    { opening \o heading \o BodyLines(n) \o ending :
        opening \in Openings, heading \in AbstractHeadings,
        n \in 0..MaxBodyLines, ending \in Endings }

basic_extraction ==
    /\ pc = "functions"
    /\ \E lines \in PaperTexts :
        pure_call' = Evaluated("_basic_extraction", lines,
                               _basic_extraction(lines))
    /\ pc' = "evaluated"
    /\ UNCHANGED <<pipeline_vars, value_vars, role_vars>>

\* One direct call of a pure function
InitFunctions ==
    /\ pc = "functions"
    /\ PipelineIdle
    /\ ValueIdle
    /\ RolesIdle
    /\ FunctionsIdle

NextFunctions ==
    \/ lookup_by_id
    \/ lookup_by_name
    \/ infer_section_type
    \/ basic_extraction

SpecFunctions == InitFunctions /\ [][NextFunctions]_vars

----------------------------------------------------------------------------
(* Properties of classify_paper, checked under SpecClassify *)

\* the entries the classification oracle wrote
WrittenEntries == GetOr(classification_oracle.data.disciplines, <<>>)
\* the id and score the k-th written entry carries (0 when it carries none)
WrittenId(k) == GetOr(WrittenEntries[k].id, 0)
WrittenScore(k) == GetOr(WrittenEntries[k].score, 0)
\* the evidence the oracle wrote for its k-th entry
Tag(k) == "ev" \o ToString(k)
\* the written entries whose id is one of the 23 taxonomy ids
Resolvable == { k \in 1..Len(WrittenEntries) : WrittenId(k) \in 1..23 }
\* a value of [0,1] (in tenths) unchanged, a larger one as 1.0, a smaller one
\* as 0.0
InUnitRange(x) == IF x > 10 THEN 10 ELSE IF x < 0 THEN 0 ELSE x
\* classify_paper has returned, after the oracle wrote a JSON object
ReturnedFromObject ==
    cp_state = "returned" /\ classification_oracle.kind = "object"

\* C1: every classification classify_paper returns holds between 1 and 3
\* discipline entries, whatever the oracle's artifact was (absent, not JSON,
\* an empty list, more than 3 valid entries, only unresolvable ids).
C1_BetweenOneAndThreeDisciplines ==
    cp_state = "returned" =>
        /\ Len(classification.disciplines) >= 1
        /\ Len(classification.disciplines) <= 3

\* C1 witness: the oracle wrote four entries with resolvable ids and three
\* were returned
C1_Witness ==
    /\ ReturnedFromObject
    /\ Cardinality(Resolvable) = 4
    /\ Len(classification.disciplines) = 3

RankedBefore(j, k) ==
    \/ InUnitRange(WrittenScore(j)) > InUnitRange(WrittenScore(k))
    \/ /\ InUnitRange(WrittenScore(j)) = InUnitRange(WrittenScore(k))
       /\ j < k
\* the place of the resolvable entry k in that ranking
Rank(k) == 1 + Cardinality({ j \in Resolvable : RankedBefore(j, k) })

C4_UnresolvableIdsDropped ==
    ReturnedFromObject =>
        LET out == classification.disciplines
        IN  /\ \A p \in 1..Len(out) : out[p].discipline_id \in 1..23
            /\ \A k \in 1..Len(WrittenEntries) :
                  k \notin Resolvable =>
                     \A p \in 1..Len(out) :
                        /\ out[p].discipline_id # WrittenId(k)
                        /\ out[p].evidence # Tag(k)
            /\ Resolvable # {} =>
                  /\ Len(out) = IF Cardinality(Resolvable) < 3
                                THEN Cardinality(Resolvable) ELSE 3
                  /\ \A p \in 1..Len(out) :
                        \E k \in Resolvable :
                           out[p].discipline_id = WrittenId(k)

\* C4 witness: the oracle wrote ids [99, 2], id 99 under the canonical name
\* "Medicine", and only id 2 was returned
C4_Witness ==
    /\ ReturnedFromObject
    /\ Len(WrittenEntries) = 2
    /\ WrittenId(1) = 99
    /\ WrittenEntries[1].name = <<"Medicine">>
    /\ WrittenId(2) = 2
    /\ Len(classification.disciplines) = 1
    /\ classification.disciplines[1].discipline_id = 2
    /\ classification.disciplines[1].name = "Medicine"

\* C5: every returned DisciplineResult has an id of the taxonomy and the
\* canonical name of that id, whatever name the oracle wrote.
C5_CanonicalNames ==
    cp_state = "returned" =>
        \A p \in 1..Len(classification.disciplines) :
           LET d == classification.disciplines[p]
           IN  /\ d.discipline_id \in 1..23
               /\ DISCIPLINES[d.discipline_id].id = d.discipline_id
               /\ d.name = DISCIPLINES[d.discipline_id].name

\* C5 witness: the oracle wrote id 1 under the name "Medicine" and the entry
\* was returned as "Computer Science"
C5_Witness ==
    /\ ReturnedFromObject
    /\ \E k \in 1..Len(WrittenEntries) :
       \E p \in 1..Len(classification.disciplines) :
          /\ WrittenId(k) = 1
          /\ WrittenEntries[k].name = <<"Medicine">>
          /\ classification.disciplines[p].evidence = Tag(k)
          /\ classification.disciplines[p].discipline_id = 1
          /\ classification.disciplines[p].name = "Computer Science"

\* C6: when the artifact is absent or is not JSON, the returned classification
\* is the fixed fallback: one entry (id 1, "Computer Science", 0.5, "Fallback
\* due to classification failure"), confidence 0.3, the fixed reasoning.
C6_FixedFallback ==
    (cp_state = "returned"
        /\ classification_oracle.kind \in {"absent", "notjson"}) =>
        /\ classification.disciplines =
              << [discipline_id |-> 1, name |-> "Computer Science",
                  relevance_score |-> 5,
                  evidence |-> "Fallback due to classification failure"] >>
        /\ classification.confidence_score = 3
        /\ classification.classification_reasoning =
              "Fallback classification due to processing error"

\* C6 witness: classify_paper returned after the oracle wrote text that is not
\* JSON
C6_Witness ==
    /\ cp_state = "returned"
    /\ classification_oracle.kind = "notjson"
    /\ classification.confidence_score = 3

\* C7: when the artifact is a JSON object and no entry survives id resolution
\* (no list, an empty list, only unresolvable ids), the classification holds
\* exactly the default entry (id 1, "Computer Science", 0.5, "Default
\* classification") and its confidence is the oracle's clamped confidence, 0.7
\* when the oracle gave none: not the fallback's 0.3.
C7_DefaultEntryKeepsOracleConfidence ==
    (ReturnedFromObject /\ Resolvable = {}) =>
        /\ classification.disciplines =
              << [discipline_id |-> 1, name |-> "Computer Science",
                  relevance_score |-> 5,
                  evidence |-> "Default classification"] >>
        /\ classification.confidence_score =
              IF classification_oracle.data.confidence = <<>> THEN 7
              ELSE InUnitRange(classification_oracle.data.confidence[1])

\* C7 witness: the oracle wrote only the unresolvable id 99 and no confidence;
\* the default entry was returned with confidence 0.7
C7_Witness ==
    /\ ReturnedFromObject
    /\ Len(WrittenEntries) = 1
    /\ WrittenId(1) = 99
    /\ classification_oracle.data.confidence = <<>>
    /\ classification.disciplines[1].evidence = "Default classification"
    /\ classification.confidence_score = 7

----------------------------------------------------------------------------
(* Properties of execute, checked under Spec *)

\* what an oracle did when it failed: it raised, wrote nothing, wrote text
\* that is not JSON, or wrote JSON that is not an object
OracleFailureKinds == {"error", "absent", "notjson", "nonobject"}
OracleOps == {"extraction_oracle", "classification_oracle"}
\* every document-store and analysis-store call of the run reported success
StoreCallsSucceeded ==
    \A i \in 1..Len(calls) : calls[i].op \notin OracleOps => calls[i].ok
\* neither id was supplied (None and "" both count as not supplied)
NeitherIdSupplied ==
    /\ file_id \in { <<>>, <<"">> }
    /\ structured_content_overview_id \in { <<>>, <<"">> }

InputContractError ==
    "ValueError: Either file_id or structured_content_overview_id must be provided"
CreateAnalysisError == "ValueError: Failed to create analysis overview"

\* C8: for both oracles, whenever the oracle call fails with an error, writes
\* no output or writes malformed output, the pipeline substitutes the
\* heuristic extraction or the fallback classification and execute returns
\* status success: an oracle failure is never surfaced as an error.
C8_OracleFailureNeverSurfaced ==
    (/\ pc = "done"
     /\ StoreCallsSucceeded
     /\ \/ extraction_oracle \in OracleFailureKinds
        \/ classification_oracle.kind \in OracleFailureKinds)
    => status = "success"

\* C9: the only failures execute surfaces to the caller are the
\* input-contract violation and a failure of the analysis store's create
\* step; every other run ends with a complete classification. Stated for the
\* runs in which no oracle call raised and no oracle wrote a non-object (the
\* failures of C8).
C9_OnlyInputAndCreateFailuresSurface ==
    (/\ status = "error"
     /\ extraction_oracle \notin {"error", "nonobject"}
     /\ classification_oracle.kind \notin {"error", "nonobject"})
    => error \in { InputContractError, CreateAnalysisError }

\* C10: when neither a document id nor a structured-content id is supplied,
\* execute ends at once in a failure: no document-store operation, no oracle
\* call and no analysis-store operation is invoked, and no classification is
\* produced or returned.
C10_NoInputFailsAtOnce ==
    NeitherIdSupplied =>
        /\ calls = <<>>
        /\ paper_content = NoPaper
        /\ classification = NoClassification
        /\ pc \in {"start", "done"}
        /\ pc = "done" =>
              /\ status = "error"
              /\ result = [error |-> InputContractError]

\* C10 witness: a run given file_id "" and no structured-content id has ended
\* with the error result
C10_Witness ==
    /\ file_id = <<"">>
    /\ structured_content_overview_id = <<>>
    /\ pc = "done"
    /\ status = "error"
    /\ calls = <<>>

----------------------------------------------------------------------------
(* Properties of the operations on a classification value, checked under   *)
(* SpecValue                                                                *)

\* C11: the validation pass is idempotent: run on a classification that is
\* itself the result of a validation pass, it returns that classification
\* unchanged in its disciplines (order, ids, names, scores, evidence),
\* confidence, reasoning and id.
C11_ValidationIdempotent ==
    \A k \in 2..(Len(validation_passes) - 1) :
        validation_passes[k + 1] = validation_passes[k]

\* C11 witness: a classification holding an entry with a foreign name and an
\* entry with an unknown id went through two passes, and the first pass
\* changed it
C11_Witness ==
    /\ Len(validation_passes) = 3
    /\ validation_passes[1].disciplines =
          << DisciplineResult(1, "Medicine", 17, "e2"),
             DisciplineResult(99, "Astrology", 5, "e3") >>
    /\ validation_passes[2] # validation_passes[1]
    /\ validation_passes[2].disciplines =
          << DisciplineResult(1, "Computer Science", 17, "e2") >>

\* a field of a value that is either a dict or a dataclass instance
FieldsOf(x) == IF "dict" \in DOMAIN x THEN x.dict ELSE x

SameDiscipline(a, b) ==
    /\ FieldsOf(a).discipline_id = FieldsOf(b).discipline_id
    /\ FieldsOf(a).name = FieldsOf(b).name
    /\ FieldsOf(a).relevance_score = FieldsOf(b).relevance_score
    /\ FieldsOf(a).evidence = FieldsOf(b).evidence

\* r is a classification equal to c field for field
EqualFieldForField(r, c) ==
    /\ "raised" \notin DOMAIN r
    /\ Len(r.disciplines) = Len(c.disciplines)
    /\ \A k \in 1..Len(c.disciplines) :
          SameDiscipline(r.disciplines[k], c.disciplines[k])
    /\ r.confidence_score = c.confidence_score
    /\ r.classification_reasoning = c.classification_reasoning
    /\ r.discipline_classification_id = c.discipline_classification_id

\* C12: serializing any DisciplineClassification to its storage payload and
\* reconstructing a DisciplineClassification from that payload yields a
\* classification equal to the original field for field (every discipline's
\* id, name, score and evidence, the confidence, the reasoning and the
\* classification id).
C12_RoundTripYieldsEquality ==
    payload.serializer # "none" =>
        EqualFieldForField(reconstructed, payload.source)

----------------------------------------------------------------------------
(* Properties of the expert role derivation, checked under SpecRoles       *)

\* the roles of the table for the primary name of the last call (none for an
\* empty list or a name without an entry)
MappedRoles ==
    IF discipline_names = <<>> THEN <<>>
    ELSE IF discipline_names[1] \in DOMAIN DISCIPLINE_TO_EXPERT_MAPPING
    THEN DISCIPLINE_TO_EXPERT_MAPPING[discipline_names[1]]
    ELSE <<>>

\* how many roles the derivation can return for that primary name
Available == IF Len(MappedRoles) >= 5 THEN Len(MappedRoles) ELSE 5

\* the names of the roles of the returned list, as the caller reads them
ReturnedNames == [k \in 1..Len(experts) |-> RoleOf(experts[k]).name]

\* no caller has changed a default object
DefaultsPristine == DEFAULT_EXPERT_CONFIGS = DefaultConfigsAtImport

\* C13: for every discipline-name list and every non-negative target role
\* count, the derivation returns exactly min(target, available) roles, where
\* available is the number of mapped roles of the primary discipline when it
\* has 5 or more, and 5 (the size of the default roster) otherwise.
C13_ExactlyMinTargetAvailable ==
    pc \in {"derived", "modified"} =>
        Len(experts) = (IF num_experts <= Available THEN num_experts
                        ELSE Available)

\* C13 witness: target 6 for the curated discipline gave its 5 roles, after
\* an earlier caller renamed a role
C13_Witness ==
    /\ pc = "derived"
    /\ discipline_names = << "Computer Science" >>
    /\ num_experts = 6
    /\ Len(experts) = 5
    /\ ~DefaultsPristine

\* C14: for a primary discipline with fewer than 5 mapped roles and target 5
\* the derived roster is the 5-slot default roster in which only position 3
\* (the first mapped role, when there is one) and position 4 (the second
\* mapped role, when there are two) differ; positions 1, 2 and 5 are the
\* default roster's entries with their generic name, focus and tier
\* (Mathematics: "Statistical Methodologist" at 3, "Formal Methods Expert" at
\* 4).
C14_OnlySlotsThreeAndFourPatched ==
    (/\ pc = "derived"
     /\ discipline_names # <<>>
     /\ Len(MappedRoles) < 5
     /\ num_experts = 5)
    => /\ Len(experts) = 5
       /\ \A k \in {1, 2, 5} :
             /\ experts[k].ref = k
             /\ RoleOf(experts[k]) = DEFAULT_EXPERT_CONFIGS[k]
             /\ DefaultsPristine =>
                   RoleOf(experts[k]) = DefaultConfigsAtImport[k]
       /\ \A k \in {3, 4} :
             IF Len(MappedRoles) >= k - 2
             THEN /\ RoleOf(experts[k]).name = MappedRoles[k - 2]
                  /\ RoleOf(experts[k]).id = k
                  /\ RoleOf(experts[k]).is_dynamic
             ELSE /\ experts[k].ref = k
                  /\ RoleOf(experts[k]) = DEFAULT_EXPERT_CONFIGS[k]
       /\ (DefaultsPristine /\ discipline_names[1] = "Mathematics") =>
             ReturnedNames =
                 << "Methodology Expert", "Technical Expert",
                    "Statistical Methodologist", "Formal Methods Expert",
                    "Presentation Expert" >>

\* C14 witness: Mathematics, followed by the curated discipline, with target
\* 5 and untouched defaults
C14_Witness ==
    /\ pc = "derived"
    /\ discipline_names = << "Mathematics", "Computer Science" >>
    /\ num_experts = 5
    /\ DefaultsPristine
    /\ ReturnedNames[3] = "Statistical Methodologist"
    /\ ReturnedNames[5] = "Presentation Expert"

\* the roster of a primary discipline with 5 or more mapped roles: the first
\* target mapped names in priority order, ids 1..n, every role dynamic and
\* created by the call, tiers high, high, high, low, low
BuiltFromMappedRoles ==
    /\ Len(experts) <= Len(MappedRoles)
    /\ \A k \in 1..Len(experts) :
          /\ experts[k].ref = 0
          /\ experts[k].own.name = MappedRoles[k]
          /\ experts[k].own.id = k
          /\ experts[k].own.is_dynamic
          /\ experts[k].own.model =
                (IF k <= 3 THEN "sonnet" ELSE "haiku")

CuratedComputerScience ==
    << "Algorithm & Complexity Expert", "Experimental Design Expert",
       "Systems & Implementation Expert", "Related Work & Novelty Expert",
       "Clarity & Presentation Expert" >>

\* C15 as the claim states it: a primary discipline with 5 or more mapped
\* roles gets a roster built only from the first target mapped roles, and
\* "Computer Science" has 6 mapped roles, of which target 5 returns the 5
\* curated ones in their listed order.
C15_CuratedRosterOfSixMappedRoles ==
    (pc = "derived" /\ Len(MappedRoles) >= 5) =>
        /\ BuiltFromMappedRoles
        /\ discipline_names[1] = "Computer Science" =>
              /\ Len(MappedRoles) = 6
              /\ Len(experts) = (IF num_experts <= 6 THEN num_experts ELSE 6)
              /\ num_experts = 5 => ReturnedNames = CuratedComputerScience

\* C15 (amended): a primary discipline with 5 or more mapped roles gets a
\* roster built only from the first target mapped roles (ids 1..n, dynamic,
\* tiers high, high, high, low, low); "Computer Science" has 5 mapped roles,
\* and every target of 5 or more returns exactly these 5 in their listed
\* order.
C15_CuratedRosterOfFiveMappedRoles ==
    (pc = "derived" /\ Len(MappedRoles) >= 5) =>
        /\ BuiltFromMappedRoles
        /\ Len(experts) = (IF num_experts <= Len(MappedRoles)
                           THEN num_experts ELSE Len(MappedRoles))
        /\ discipline_names[1] = "Computer Science" =>
              /\ Len(MappedRoles) = 5
              /\ num_experts >= 5 => ReturnedNames = CuratedComputerScience

\* C15 witness: target 5 for the curated discipline
C15_Witness ==
    /\ pc = "derived"
    /\ discipline_names = << "Computer Science" >>
    /\ num_experts = 5
    /\ Len(experts) = 5
    /\ experts[4].own.model = "haiku"

\* C16: for an empty discipline-name list and any target the derivation
\* returns exactly the first target entries of the global default roster,
\* unmodified, each with is_dynamic = true.
C16_EmptyListGivesDefaultRoster ==
    (pc = "derived" /\ discipline_names = <<>>) =>
        /\ Len(experts) = (IF num_experts <= 5 THEN num_experts ELSE 5)
        /\ \A k \in 1..Len(experts) :
              /\ experts[k].ref = k
              /\ RoleOf(experts[k]) = DEFAULT_EXPERT_CONFIGS[k]
              /\ RoleOf(experts[k]).is_dynamic
              /\ DefaultsPristine =>
                    RoleOf(experts[k]) = DefaultConfigsAtImport[k]

\* C16 witness: an empty list with target 2
C16_Witness ==
    /\ pc = "derived"
    /\ discipline_names = <<>>
    /\ num_experts = 2
    /\ DefaultsPristine
    /\ ReturnedNames = << "Methodology Expert", "Technical Expert" >>

\* C17: the entities are value objects: a caller that modifies a role of a
\* returned roster changes neither the global default roster nor the result
\* of a later derivation call; a derivation always returns the roster it
\* returns for that input right after import.
C17_RostersAreValueObjects ==
    /\ DefaultsPristine
    /\ pc = "derived" =>
          \A k \in 1..Len(experts) :
              experts[k].ref # 0 =>
                  RoleOf(experts[k]) = DefaultConfigsAtImport[experts[k].ref]

----------------------------------------------------------------------------
(* Properties of the storage branch of classify_paper, checked under        *)
(* SpecClassify                                                             *)

AnalysisOps == { "create_analysis_overview", "create_analysis_section",
                 "complete_analysis_overview" }

\* the analysis-store operations of the run, in the order of their invocation
AnalysisCalls == SelectSeq(calls, LAMBDA c : c.op \in AnalysisOps)

\* the oracle call returned to classify_paper with something it can parse
\* (the failures of C8 end the method before the storage decision)
ParsedSomething ==
    classification_oracle.kind \in {"absent", "notjson", "object"}

\* storage is enabled and the PaperContent carries a non-empty id
EnabledWithId ==
    store_to_mcp = TRUE /\ paper_content.structured_content_overview_id # ""

\* C18: classify_paper attempts persistence in the analysis store if and only
\* if storage is enabled and the PaperContent carries a non-empty
\* structured-content id; otherwise it invokes no analysis-store operation,
\* raises no error of its own and returns the classification with a locally
\* generated id.
C18_PersistenceIffEnabledAndIdPresent ==
    /\ ~EnabledWithId => AnalysisCalls = <<>>
    /\ (pc = "done" /\ ParsedSomething) =>
          /\ AnalysisCalls # <<>> <=> EnabledWithId
          /\ ~EnabledWithId =>
                /\ cp_state = "returned"
                /\ error = ""
                /\ classification.discipline_classification_id = "uuid4"

\* C18 witness: storage enabled, no structured-content id: the fallback
\* classification was returned with a local id and the store was not called
C18_Witness ==
    /\ pc = "done"
    /\ store_to_mcp = TRUE
    /\ paper_content.structured_content_overview_id = ""
    /\ classification_oracle.kind = "absent"
    /\ cp_state = "returned"
    /\ classification.discipline_classification_id = "uuid4"
    /\ Len(calls) = 1

\* C19: when persistence is attempted the analysis-store operations are
\* invoked in the order create, section write, finalize; when the create
\* step reports failure the classification fails and neither the section
\* write nor the finalize step is invoked.
C19_CreateThenSectionThenFinalize ==
    /\ AnalysisCalls # <<>> =>
          /\ AnalysisCalls[1].op = "create_analysis_overview"
          /\ AnalysisCalls[1].ok =>
                /\ Len(AnalysisCalls) = 3
                /\ AnalysisCalls[2].op = "create_analysis_section"
                /\ AnalysisCalls[3].op = "complete_analysis_overview"
          /\ ~AnalysisCalls[1].ok =>
                /\ Len(AnalysisCalls) = 1
                /\ cp_state = "raised"
                /\ error = "ValueError: Failed to create analysis overview"
                /\ classification.discipline_classification_id = ""
    /\ create_result.status \notin {"notcalled", "success"} =>
          AnalysisCalls = << Call("create_analysis_overview", FALSE) >>

\* C19 witness: the create step reported a failure after the oracle had
\* written a classification
C19_Witness ==
    /\ create_result.status = "error"
    /\ classification_oracle.kind = "object"
    /\ cp_state = "raised"
    /\ Len(calls) = 2

\* C20: after the create step has succeeded, a failure reported by the
\* section write or by the finalize step does not abort: the finalize step is
\* still invoked after a failed section write, and classify_paper returns
\* the classification with the id the create step gave (none: the empty id).
C20_LaterStoreFailuresNotFatal ==
    create_result.status = "success" =>
        /\ Len(AnalysisCalls) = 3
        /\ AnalysisCalls[1] = Call("create_analysis_overview", TRUE)
        /\ AnalysisCalls[2].op = "create_analysis_section"
        /\ AnalysisCalls[3].op = "complete_analysis_overview"
        /\ cp_state = "returned"
        /\ error = ""
        /\ classification.discipline_classification_id =
              (IF create_result.analysis_id = <<>> THEN ""
               ELSE create_result.analysis_id[1])
        /\ Len(classification.disciplines) >= 1

\* C20 witness: the section write and the finalize step both reported a
\* failure and the classification came back with the store's id
C20_Witness ==
    /\ create_result.status = "success"
    /\ AnalysisCalls = << Call("create_analysis_overview", TRUE),
                          Call("create_analysis_section", FALSE),
                          Call("complete_analysis_overview", FALSE) >>
    /\ cp_state = "returned"
    /\ classification.discipline_classification_id = "analysis-1"

----------------------------------------------------------------------------
(* C21: the taxonomy table *)

\* the position of a canonical name in the table
PositionsOf(name) ==
    { k \in DOMAIN DISCIPLINES : DISCIPLINES[k].name = name }

\* C21: the taxonomy holds exactly the ids 1..23: a lookup of one of these
\* ids returns a definition carrying that id, a lookup of any other id returns
\* nothing; the canonical names are pairwise distinct: every definition is the
\* only one its name is looked up to.
C21_TaxonomyDenseAndNamesDistinct ==
    /\ pure_call.op = "get_discipline_by_id" =>
          IF pure_call.args \in 1..23
          THEN /\ pure_call.result # Absent
               /\ pure_call.result[1].id = pure_call.args
          ELSE pure_call.result = Absent
    /\ (pure_call.op = "get_discipline_by_name"
        /\ PositionsOf(pure_call.args) # {}) =>
          /\ pure_call.result # Absent
          /\ PositionsOf(pure_call.args) = { pure_call.result[1].id }

\* the last id of the table was looked up and found
C21_Witness ==
    /\ pure_call.op = "get_discipline_by_id"
    /\ pure_call.args = 23
    /\ pure_call.result # Absent
    /\ pure_call.result[1].name = "Linguistics"

----------------------------------------------------------------------------
(* C22: one attempt per oracle *)

\* the positions in calls of the invocations of an operation
InvocationsOf(op) == { i \in 1..Len(calls) : calls[i].op = op }

----------------------------------------------------------------------------
(* C23, C24: the sections of the structured-content path *)

\* parse_paper has read the sections of a structured content
StructuredSectionsRead ==
    /\ "sections_data" \in DOMAIN parse_locals
    /\ parse_locals.sections_data # <<>>

\* the listing positions whose detail retrieval succeeded
Retrieved ==
    { k \in 1..Len(parse_locals.sections_data) :
        parse_locals.details[k].status = "success" }

\* C23: on the structured-content path the sections parse_paper goes on with,
\* and those of the PaperContent it returns, are exactly the listed sections
\* whose detail retrieval succeeded; a failed retrieval ends nothing: the
\* extraction step is reached without an error.
C23_FailedDetailsSkipped ==
    StructuredSectionsRead =>
        /\ Len(parse_locals.sections) = Cardinality(Retrieved)
        /\ { parse_locals.sections[i].section_id :
               i \in 1..Len(parse_locals.sections) }
             = { SectionId(k) : k \in Retrieved }
        /\ pc = "extract" => error = ""
        /\ pc = "parsed" =>
              /\ error = ""
              /\ paper_content.sections = parse_locals.sections

\* two sections listed, the detail of the first one failed, and parse_paper
\* returned a PaperContent holding the second one only
C23_Witness ==
    /\ StructuredSectionsRead
    /\ pc = "parsed"
    /\ Len(parse_locals.sections_data) = 2
    /\ Retrieved = {2}
    /\ Len(paper_content.sections) = 1
    /\ paper_content.sections[1].section_id = SectionId(2)

\* the ordering key the store listed for a section, when it listed one
HasListedKey(section) ==
    section.order # Absent \/ section.section_order # Absent

ListedKey(section) ==
    IF section.order # Absent THEN section.order[1]
    ELSE section.section_order[1]

\* the listing position of a section of the result
PositionOf(sec) ==
    CHOOSE k \in 1..Len(parse_locals.sections_data) :
        SectionId(k) = sec.section_id

\* the section bodies of a text, in the order of its lines
BodiesOf(lines) == SelectSeq(lines, LAMBDA l : startswith(l, "text of "))

\* the bodies of a list of sections, in the order of the list
BodiesIn(sections) == [i \in 1..Len(sections) |-> sections[i].content]

\* C24: the sections built on the structured-content path are in
\* non-decreasing order of the ordering key the store listed for them,
\* sections of equal key in listing order, and the paper text assembled from
\* them (by _build_paper_markdown and by get_full_text) has them in that order.
C24_SectionsInListedKeyOrder ==
    StructuredSectionsRead =>
        LET secs == parse_locals.sections
            data == parse_locals.sections_data
        IN  /\ \A i, j \in 1..Len(secs) :
                  (/\ i < j
                   /\ HasListedKey(data[PositionOf(secs[i])])
                   /\ HasListedKey(data[PositionOf(secs[j])])) =>
                      \/ ListedKey(data[PositionOf(secs[i])])
                           < ListedKey(data[PositionOf(secs[j])])
                      \/ /\ ListedKey(data[PositionOf(secs[i])])
                              = ListedKey(data[PositionOf(secs[j])])
                         /\ PositionOf(secs[i]) < PositionOf(secs[j])
            /\ BodiesOf(parse_locals.paper_markdown) = BodiesIn(secs)
            /\ pc = "parsed" =>
                  BodiesOf(get_full_text(paper_content)) = BodiesIn(secs)

----------------------------------------------------------------------------
(* C25: the inferred section type *)

\* keyword occurs in s, letter by letter
OccursIn(keyword, s) ==
    \E i \in 1..Len(s) :
        \A j \in 1..Len(keyword) :
            /\ i + j - 1 <= Len(s)
            /\ SubSeq(s, i + j - 1, i + j - 1) = SubSeq(keyword, j, j)

\* the categories, in their order, one of whose keywords occurs in the name
\* without regard to case
CategoriesOccurring(section_name) ==
    SelectSeq([k \in DOMAIN type_mappings |-> k],
              LAMBDA k : \E j \in DOMAIN type_mappings[k].keywords :
                            OccursIn(type_mappings[k].keywords[j],
                                     lower(section_name)))

NineTypes ==
    { "introduction", "methods", "results", "discussion", "conclusion",
      "abstract", "references", "appendix", "content" }

InferCalled == pure_call.op = "_infer_section_type"

\* C25 as stated: the inferred type is the first category one of whose
\* keywords occurs in the name, "content" when none does, and so always one
\* of the nine values.
C25_FirstCategoryElseContent ==
    InferCalled =>
        LET occurring == CategoriesOccurring(pure_call.args[1])
        IN  /\ pure_call.result =
                  IF occurring # <<>>
                  THEN type_mappings[Head(occurring)].section_type
                  ELSE "content"
            /\ pure_call.result \in NineTypes

\* C25, amended: the inferred type is the first category one of whose
\* keywords occurs in the name; when none does it is the store-provided type,
\* and "content" when the store provided none or an empty one. It is one of
\* the nine values or the store-provided type.
C25_FirstCategoryElseStoreType ==
    InferCalled =>
        LET occurring == CategoriesOccurring(pure_call.args[1])
            default_type == pure_call.args[2]
        IN  /\ pure_call.result =
                  IF occurring # <<>>
                  THEN type_mappings[Head(occurring)].section_type
                  ELSE IF default_type # "" THEN default_type
                  ELSE "content"
            /\ pure_call.result \in NineTypes \cup { default_type }

\* a name without any keyword, listed by the store as a paragraph, was typed
\* "paragraph"
C25_Witness ==
    /\ InferCalled
    /\ pure_call.args = << "Notes", "paragraph" >>
    /\ CategoriesOccurring("Notes") = <<>>
    /\ pure_call.result = "paragraph"

----------------------------------------------------------------------------
(* C26: the heuristic abstract *)

\* the positions of the lines containing "abstract", without regard to case
AbstractPositions(lines) ==
    { k \in 1..Len(lines) : OccursIn("abstract", lower(lines[k])) }

\* the lines after position first: at most count of them, ending before the
\* first one that starts with the heading marker
RECURSIVE FollowingLines(_, _, _)
FollowingLines(lines, first, count) ==
    IF count = 0 \/ first + 1 > Len(lines) THEN <<>>
    ELSE IF SubSeq(lines[first + 1], 1, 1) = "#" THEN <<>>
    ELSE << lines[first + 1] >> \o FollowingLines(lines, first + 1, count - 1)

\* C26: the heuristic answers every paper text, and the abstract it returns
\* is made of the lines after the first line containing "abstract": the next
\* 20 lines at most, ending at the first line that starts with a heading
\* marker (no abstract when no line contains the word).
C26_AbstractIsNextTwentyLines ==
    pure_call.op = "_basic_extraction" =>
        LET lines == pure_call.args
            positions == AbstractPositions(lines)
        IN  /\ "dict" \in DOMAIN pure_call.result
            /\ pure_call.result.dict.abstract =
                  IF positions = {} THEN <<>>
                  ELSE FollowingLines(
                           lines,
                           CHOOSE k \in positions : \A j \in positions : k <= j,
                           20)

----------------------------------------------------------------------------
(* C27, C28, C29: the classification classify_paper returns *)

\* C27: the discipline ids of a returned classification are pairwise
\* distinct, whatever ids the oracle listed.
C27_DisciplineIdsDistinct ==
    cp_state = "returned" =>
        \A i, j \in 1..Len(classification.disciplines) :
            i # j => classification.disciplines[i].discipline_id
                        # classification.disciplines[j].discipline_id

\* C28: a returned classification carries a non-empty id: the one the
\* analysis store assigned when the create step succeeded, a locally
\* generated one otherwise.
C28_ClassificationIdNonEmpty ==
    cp_state = "returned" =>
        /\ classification.discipline_classification_id # ""
        /\ classification.discipline_classification_id =
              IF create_result.status = "success"
              THEN GetOr(create_result.analysis_id, "")
              ELSE "uuid4"

\* the classification oracle returned and its artifact could be parsed
Classified == classification_oracle.kind \in FallbackKinds \cup {"object"}

\* C29: inside classify_paper the validation pass returns the parsing step's
\* classification unchanged, so the disciplines classify_paper goes on with
\* and returns are the parsed ones and none of them is the validation pass's
\* default entry.
C29_ValidationChangesNothing ==
    Classified =>
        LET parsed == _parse_classification_result(classification_oracle)
        IN  /\ _validate_disciplines(parsed) = parsed
            /\ classification.disciplines = parsed.disciplines
            /\ \A k \in 1..Len(classification.disciplines) :
                  classification.disciplines[k].evidence
                      # "Fallback classification"

\* the oracle listed one entry, with an id the taxonomy does not hold: the
\* parsing step substituted its default entry and that is what was returned
C29_Witness ==
    /\ cp_state = "returned"
    /\ classification_oracle.kind = "object"
    /\ classification_oracle.data.disciplines # Absent
    /\ Len(classification_oracle.data.disciplines[1]) = 1
    /\ classification_oracle.data.disciplines[1][1].id = Some(99)
    /\ classification.disciplines = << DefaultEntry >>

----------------------------------------------------------------------------
(* C30: the structured-content id of a parsed paper *)

\* the operations on the raw document and on the store's new content
RawDocumentOps ==
    { "create_content_overview", "get_pdf_pages", "create_content_section" }

\* the ids the store assigned to the content overviews it created
AssignedOverviewIds ==
    { o.id[1] : o \in { x \in OverviewOutcomes : x.id # Absent } }

\* C30: a PaperContent returned by parse_paper carries a non-empty
\* structured-content id: the supplied one when one was supplied, also next
\* to a document id, and then no raw-document operation was invoked; the id
\* the store assigned to the created overview otherwise. With storage
\* enabled classify_paper therefore takes the storage branch for it.
C30_ParsedPaperCarriesContentId ==
    pc = "parsed" =>
        /\ paper_content.structured_content_overview_id # ""
        /\ IF Truthy(structured_content_overview_id)
           THEN /\ paper_content.structured_content_overview_id
                     = structured_content_overview_id[1]
                /\ \A i \in 1..Len(calls) : calls[i].op \notin RawDocumentOps
           ELSE /\ paper_content.structured_content_overview_id
                     \in AssignedOverviewIds
                /\ \E i \in 1..Len(calls) :
                      calls[i] = Call("create_content_overview", TRUE)
        /\ store_to_mcp => StorageAttempted

\* both ids were supplied: the paper was read from the structured content and
\* carries the supplied id
C30_Witness ==
    /\ pc = "parsed"
    /\ file_id = Some("file-1")
    /\ structured_content_overview_id = Some("content-1")
    /\ paper_content.structured_content_overview_id = "content-1"
    /\ paper_content.original_file_id = Some("file-1")
    /\ \A i \in 1..Len(calls) : calls[i].op \notin RawDocumentOps

====
